---- MODULE Spec2Model ----
(***************************************************************************)
(* A model of the SLURM job monitor extension: the command-output parsers  *)
(* of SlurmService (slurmService.ts), the tree provider SlurmJobsProvider  *)
(* (slurmProvider.ts) and the refresh / notification cycle of the          *)
(* extension entry point (extension.ts).                                   *)
(*                                                                         *)
(* Text is modelled as TLA+ strings, read character by character with      *)
(* SubSeq, so that splitting, trimming and number parsing are computed as  *)
(* the code computes them.                                                 *)
(***************************************************************************)
EXTENDS Integers, Sequences, FiniteSets, Bags, TLC

(***************************************************************************)
(* Bounds of the model.                                                    *)
(***************************************************************************)
\* longest squeue listing (in lines) that is enumerated
MaxLines == 2
\* longest state code (in letters) that is enumerated for parseJobState
MaxCodeLen == 2
\* number of refresh() calls made on the provider
MaxRefreshes == 3

\* the calls of refreshJobs a behaviour makes
MaxCycles == 3

\* the calls of setInterval a behaviour makes
MaxTimers == 3

\* the tail processes a behaviour spawns
MaxStreams == 3

\* the jobs of a snapshot whose tree is rendered
MaxTreeJobs == 3

(***************************************************************************)
(* JavaScript string primitives.                                           *)
(***************************************************************************)
NULL == "<null>"
NaN == "<NaN>"

UPPER ==
    {"A","B","C","D","E","F","G","H","I","J","K","L","M",
     "N","O","P","Q","R","S","T","U","V","W","X","Y","Z"}

LOWER ==
    {"a","b","c","d","e","f","g","h","i","j","k","l","m",
     "n","o","p","q","r","s","t","u","v","w","x","y","z"}

DIGITS == {"0","1","2","3","4","5","6","7","8","9"}

WHITESPACE == {" ", "\n", "\t", "\r"}

CharAt(s, i) == SubSeq(s, i, i)

\* String.prototype.trim
TrimStart(s) ==
    LET idx == {i \in 1..Len(s) : CharAt(s, i) \notin WHITESPACE}
    IN  IF idx = {} THEN ""
        ELSE SubSeq(s, CHOOSE i \in idx : \A j \in idx : i <= j, Len(s))

TrimEnd(s) ==
    LET idx == {i \in 1..Len(s) : CharAt(s, i) \notin WHITESPACE}
    IN  IF idx = {} THEN ""
        ELSE SubSeq(s, 1, CHOOSE i \in idx : \A j \in idx : i >= j)

Trim(s) == TrimEnd(TrimStart(s))

\* String.prototype.split with a one-character separator
RECURSIVE Split(_, _)
Split(s, sep) ==
    LET idx == {i \in 1..Len(s) : CharAt(s, i) = sep}
    IN  IF idx = {} THEN <<s>>
        ELSE LET k == CHOOSE i \in idx : \A j \in idx : i <= j
             IN  <<SubSeq(s, 1, k - 1)>> \o Split(SubSeq(s, k + 1, Len(s)), sep)

\* code.split(/[^A-Z]/)[0]: the text before the first character outside A-Z
SplitNonUpperHead(s) ==
    LET idx == {i \in 1..Len(s) : CharAt(s, i) \notin UPPER}
    IN  IF idx = {} THEN s
        ELSE SubSeq(s, 1, (CHOOSE i \in idx : \A j \in idx : i <= j) - 1)

DigitVal(c) ==
    CASE c = "0" -> 0 [] c = "1" -> 1 [] c = "2" -> 2 [] c = "3" -> 3
      [] c = "4" -> 4 [] c = "5" -> 5 [] c = "6" -> 6 [] c = "7" -> 7
      [] c = "8" -> 8 [] c = "9" -> 9

RECURSIVE DigitsVal(_)
DigitsVal(s) ==
    IF s = "" THEN 0
    ELSE 10 * DigitsVal(SubSeq(s, 1, Len(s) - 1)) + DigitVal(CharAt(s, Len(s)))

\* parseInt(s, 10): leading whitespace, an optional sign, then the longest
\* run of digits; NaN when there is no digit
parseInt(s) ==
    LET t    == TrimStart(s)
        neg  == t # "" /\ CharAt(t, 1) = "-"
        sgn  == t # "" /\ CharAt(t, 1) \in {"-", "+"}
        u    == IF sgn THEN SubSeq(t, 2, Len(t)) ELSE t
        stop == {i \in 1..Len(u) : CharAt(u, i) \notin DIGITS}
        run  == IF stop = {} THEN u
                ELSE SubSeq(u, 1, (CHOOSE i \in stop : \A j \in stop : i <= j) - 1)
    IN  IF run = "" THEN NaN
        ELSE IF neg THEN 0 - DigitsVal(run) ELSE DigitsVal(run)

\* slice(0, end) with the end counted one short
Slice0_short(arr, end) ==
    LET e == IF end < 0 THEN (IF Len(arr) + end < 0 THEN 0 ELSE Len(arr) + end)
             ELSE IF end > Len(arr) THEN Len(arr) ELSE end
    IN  SubSeq(arr, 1, e - 1)

\* Array.prototype.slice(0, end)
Slice0(arr, end) ==
    LET e == IF end < 0 THEN (IF Len(arr) + end < 0 THEN 0 ELSE Len(arr) + end)
             ELSE IF end > Len(arr) THEN Len(arr) ELSE end
    IN  SubSeq(arr, 1, e)

\* Array.prototype.filter
RECURSIVE FilterSeq(_, _)
FilterSeq(arr, keep) ==
    IF arr = <<>> THEN <<>>
    ELSE (IF Head(arr) \in keep THEN <<Head(arr)>> ELSE <<>>)
         \o FilterSeq(Tail(arr), keep)

(***************************************************************************)
(* types.ts: the JobState type, each member documented with its code.      *)
(***************************************************************************)
JobState ==
    ("PD" :> "PENDING") @@ ("R" :> "RUNNING") @@ ("S" :> "SUSPENDED")
    @@ ("CG" :> "COMPLETING") @@ ("CD" :> "COMPLETED") @@ ("CA" :> "CANCELLED")
    @@ ("F" :> "FAILED") @@ ("TO" :> "TIMEOUT") @@ ("NF" :> "NODE_FAIL")
    @@ ("PR" :> "PREEMPTED") @@ ("OOM" :> "OUT_OF_MEMORY") @@ ("BF" :> "BOOT_FAIL")
    @@ ("DL" :> "DEADLINE") @@ ("RQ" :> "REQUEUED") @@ ("RS" :> "RESIZING")
    @@ ("RV" :> "REVOKED") @@ ("SI" :> "SIGNALING") @@ ("SE" :> "SPECIAL_EXIT")
    @@ ("SO" :> "STAGE_OUT") @@ ("ST" :> "STOPPED")

(***************************************************************************)
(* slurmService.ts: the state normalizer.                                  *)
(***************************************************************************)
\* the table with the values of S and ST exchanged
STATE_MAP_swapped ==
    ("PD" :> "PENDING") @@ ("R" :> "RUNNING") @@ ("S" :> "STOPPED")
    @@ ("CG" :> "COMPLETING") @@ ("CD" :> "COMPLETED") @@ ("CA" :> "CANCELLED")
    @@ ("F" :> "FAILED") @@ ("TO" :> "TIMEOUT") @@ ("NF" :> "NODE_FAIL")
    @@ ("PR" :> "PREEMPTED") @@ ("OOM" :> "OUT_OF_MEMORY") @@ ("BF" :> "BOOT_FAIL")
    @@ ("DL" :> "DEADLINE") @@ ("RQ" :> "REQUEUED") @@ ("RS" :> "RESIZING")
    @@ ("RV" :> "REVOKED") @@ ("SI" :> "SIGNALING") @@ ("SE" :> "SPECIAL_EXIT")
    @@ ("SO" :> "STAGE_OUT") @@ ("ST" :> "SUSPENDED")

STATE_MAP ==
    ("PD" :> "PENDING") @@ ("R" :> "RUNNING") @@ ("S" :> "SUSPENDED")
    @@ ("CG" :> "COMPLETING") @@ ("CD" :> "COMPLETED") @@ ("CA" :> "CANCELLED")
    @@ ("F" :> "FAILED") @@ ("TO" :> "TIMEOUT") @@ ("NF" :> "NODE_FAIL")
    @@ ("PR" :> "PREEMPTED") @@ ("OOM" :> "OUT_OF_MEMORY") @@ ("BF" :> "BOOT_FAIL")
    @@ ("DL" :> "DEADLINE") @@ ("RQ" :> "REQUEUED") @@ ("RS" :> "RESIZING")
    @@ ("RV" :> "REVOKED") @@ ("SI" :> "SIGNALING") @@ ("SE" :> "SPECIAL_EXIT")
    @@ ("SO" :> "STAGE_OUT") @@ ("ST" :> "STOPPED")

parseJobState(code) ==
    LET key == SplitNonUpperHead(code)
    IN  IF key \in DOMAIN STATE_MAP THEN STATE_MAP[key] ELSE code

(***************************************************************************)
(* slurmService.ts: running a command.                                     *)
(***************************************************************************)
\* What the child process did: exec resolves with its output (ok) or
\* rejects with an error that carries the output, a message and a code.
ExecOk(out) == [ok |-> TRUE, stdout |-> out, stderr |-> "", message |-> "", code |-> 0]

ExecFail(err, msg) == [ok |-> FALSE, stdout |-> "", stderr |-> err, message |-> msg, code |-> 1]

executeCommand(proc) ==
    IF proc.ok
    THEN [success |-> TRUE, stdout |-> Trim(proc.stdout),
          stderr |-> Trim(proc.stderr), exitCode |-> 0]
    ELSE [success |-> FALSE, stdout |-> Trim(proc.stdout),
          stderr |-> IF Trim(proc.stderr) # "" THEN Trim(proc.stderr) ELSE proc.message,
          exitCode |-> IF proc.code # 0 THEN proc.code ELSE 1]

(***************************************************************************)
(* new RegExp(pattern, 'i') and RegExp.prototype.test, for patterns made   *)
(* of literal characters and parentheses: the constructor throws on        *)
(* unbalanced parentheses, and a pattern of literals matches a text that   *)
(* contains it, letter case ignored.                                       *)
(***************************************************************************)
LowerOf ==
    ("A" :> "a") @@ ("B" :> "b") @@ ("C" :> "c") @@ ("D" :> "d") @@ ("E" :> "e")
    @@ ("F" :> "f") @@ ("G" :> "g") @@ ("H" :> "h") @@ ("I" :> "i") @@ ("J" :> "j")
    @@ ("K" :> "k") @@ ("L" :> "l") @@ ("M" :> "m") @@ ("N" :> "n") @@ ("O" :> "o")
    @@ ("P" :> "p") @@ ("Q" :> "q") @@ ("R" :> "r") @@ ("S" :> "s") @@ ("T" :> "t")
    @@ ("U" :> "u") @@ ("V" :> "v") @@ ("W" :> "w") @@ ("X" :> "x") @@ ("Y" :> "y")
    @@ ("Z" :> "z")

RECURSIVE ToLowerCase(_)
ToLowerCase(s) ==
    IF s = "" THEN ""
    ELSE IF Len(s) = 1 THEN (IF s \in UPPER THEN LowerOf[s] ELSE s)
    ELSE ToLowerCase(SubSeq(s, 1, Len(s) \div 2))
         \o ToLowerCase(SubSeq(s, Len(s) \div 2 + 1, Len(s)))

ParenDepth(p, n) ==
    Cardinality({i \in 1..n : CharAt(p, i) = "("})
    - Cardinality({i \in 1..n : CharAt(p, i) = ")"})

RegExpThrows(p) ==
    \/ ParenDepth(p, Len(p)) # 0
    \/ \E n \in 1..Len(p) : ParenDepth(p, n) < 0

RECURSIVE StripParens(_)
StripParens(p) ==
    IF p = "" THEN ""
    ELSE (IF CharAt(p, 1) \in {"(", ")"} THEN "" ELSE CharAt(p, 1))
         \o StripParens(SubSeq(p, 2, Len(p)))

RegExpTestI(p, s) ==
    LET lit == ToLowerCase(StripParens(p))
        txt == ToLowerCase(s)
    IN  \E i \in 1..(Len(txt) + 1) :
            /\ i + Len(lit) - 1 <= Len(txt)
            /\ SubSeq(txt, i, i + Len(lit) - 1) = lit

(***************************************************************************)
(* slurmService.ts: getJobs, the queue-listing parser.                     *)
(***************************************************************************)
\* f[i]?.trim() || ''   (fields are numbered from 1 here)
Field(f, i) == IF i <= Len(f) THEN Trim(f[i]) ELSE ""

ParseSqueueLine(line) ==
    LET f == Split(line, "|")
    IN  [jobId |-> Field(f, 1), name |-> Field(f, 2), partition |-> Field(f, 3),
         state |-> parseJobState(Field(f, 4)), stateRaw |-> Field(f, 4),
         timeUsed |-> Field(f, 5), timeLimit |-> Field(f, 6),
         nodes |-> parseInt(IF Field(f, 7) # "" THEN Field(f, 7) ELSE "0"),
         nodelist |-> Field(f, 8), startTime |-> Field(f, 9), endTime |-> Field(f, 10)]

\* an async function either returns a value or throws an Error
Returned(v) == [threw |-> FALSE, value |-> v]

Threw(msg) == [threw |-> TRUE, message |-> msg]

\* the lines of the output that survive filter(l => l.trim())
NonBlankLines(stdout) ==
    LET ls == Split(stdout, "\n")
    IN  FilterSeq(ls, {ls[i] : i \in {j \in 1..Len(ls) : Trim(ls[j]) # ""}})

MapParse(ls) == [i \in 1..Len(ls) |-> ParseSqueueLine(ls[i])]

\* getJobs taking an empty output for a failure
getJobs_emptyFails(result, filter, maxJobsDisplayed) ==
    IF ~result.success \/ result.stdout = ""
    THEN Threw("Failed to get jobs: " \o result.stderr)
    ELSE LET jobs == MapParse(NonBlankLines(result.stdout))
         IN  IF filter.name # ""
             THEN IF RegExpThrows(filter.name)
                  THEN Threw("Invalid regular expression: /" \o filter.name \o "/")
                  ELSE Returned(Slice0(
                          FilterSeq(jobs, {jobs[i] : i \in {j \in 1..Len(jobs) :
                                               RegExpTestI(filter.name, jobs[j].name)}}),
                          maxJobsDisplayed))
             ELSE Returned(Slice0(jobs, maxJobsDisplayed))

getJobs(result, filter, maxJobsDisplayed) ==
    IF ~result.success THEN Threw("Failed to get jobs: " \o result.stderr)
    ELSE IF result.stdout = "" THEN Returned(<<>>)
    ELSE LET jobs == MapParse(NonBlankLines(result.stdout))
         IN  IF filter.name # ""
             THEN IF RegExpThrows(filter.name)
                  THEN Threw("Invalid regular expression: /" \o filter.name \o "/")
                  ELSE Returned(Slice0(
                          FilterSeq(jobs, {jobs[i] : i \in {j \in 1..Len(jobs) :
                                               RegExpTestI(filter.name, jobs[j].name)}}),
                          maxJobsDisplayed))
             ELSE Returned(Slice0(jobs, maxJobsDisplayed))

(***************************************************************************)
(* slurmService.ts: the accounting, partition and job-detail parsers.      *)
(***************************************************************************)
\* f[10] of a row that has no eleventh field
UNDEFINED == "<undefined>"

IsNaN(v) == ToString(v) = ToString(NaN)

\* parseInt(s, 10) || 0
ParseIntOrZero(s) == IF IsNaN(parseInt(s)) THEN 0 ELSE parseInt(s)

RECURSIVE ToUpperCase(_)
ToUpperCase(s) ==
    IF s = "" THEN ""
    ELSE (IF CharAt(s, 1) \in LOWER
          THEN CHOOSE u \in UPPER : LowerOf[u] = CharAt(s, 1) ELSE CharAt(s, 1))
         \o ToUpperCase(SubSeq(s, 2, Len(s)))

\* String.prototype.includes
Includes(s, part) ==
    \E i \in 1..(Len(s) + 1) :
        i + Len(part) - 1 <= Len(s) /\ SubSeq(s, i, i + Len(part) - 1) = part

\* getJobAccounting, from the result of the sacct command on
getJobAccounting(result) ==
    IF ~result.success THEN Threw("Failed to get accounting data: " \o result.stderr)
    ELSE LET ls   == Split(result.stdout, "\n")
             rows == FilterSeq(ls, {ls[i] : i \in {j \in 1..Len(ls) :
                        /\ Len(Split(ls[j], "|")) >= 10
                        /\ ~Includes(Split(ls[j], "|")[1], ".")}})
             row(line) ==
                 LET f == Split(line, "|")
                 IN  [jobId |-> f[1], name |-> f[2], partition |-> f[3],
                      state |-> parseJobState(f[4]), stateRaw |-> f[4],
                      timeUsed |-> f[5], timeLimit |-> f[6], nodes |-> ParseIntOrZero(f[7]),
                      nodelist |-> f[8], startTime |-> f[9], endTime |-> f[10],
                      exitCode |-> IF Len(f) >= 11 THEN f[11] ELSE UNDEFINED]
         IN  Returned([i \in 1..Len(rows) |-> row(rows[i])])

\* getPartitions, from the result of the sinfo command on
getPartitions(result) ==
    IF ~result.success THEN Threw("Failed to get partitions: " \o result.stderr)
    ELSE LET ls   == Split(result.stdout, "\n")
             rows == FilterSeq(ls, {ls[i] : i \in {j \in 1..Len(ls) :
                        Len(Split(ls[j], "|")) >= 5}})
             unstar(s) ==
                 LET at == {i \in 1..Len(s) : CharAt(s, i) = "*"}
                     k  == CHOOSE i \in at : \A j \in at : i <= j
                 IN  IF at = {} THEN s ELSE SubSeq(s, 1, k - 1) \o SubSeq(s, k + 1, Len(s))
             row(line) ==
                 LET f == Split(line, "|")
                 IN  [name |-> unstar(Trim(f[1])),
                      state |-> IF Trim(f[2]) # "" THEN ToUpperCase(Trim(f[2])) ELSE "UNKNOWN",
                      maxTime |-> Trim(f[3]), defaultTime |-> "",
                      totalNodes |-> ParseIntOrZero(f[4]),
                      idleNodes |-> 0, allocNodes |-> 0, downNodes |-> 0,
                      maxNodes |-> 0, minNodes |-> 0, default |-> Includes(f[1], "*")]
         IN  Returned([i \in 1..Len(rows) |-> row(rows[i])])

\* o.match(new RegExp(`${k}=([^\\s]+)`, 'i'))?.[1] || '': the run of
\* non-blank characters after the leftmost k=, letter case ignored
get(o, k) ==
    LET key == ToLowerCase(k) \o "="
        low == ToLowerCase(o)
        at  == {i \in 1..Len(o) :
                  /\ i + Len(key) <= Len(o)
                  /\ SubSeq(low, i, i + Len(key) - 1) = key
                  /\ CharAt(o, i + Len(key)) \notin WHITESPACE}
        from == (CHOOSE i \in at : \A j \in at : i <= j) + Len(key)
        stop == {j \in from..Len(o) : CharAt(o, j) \in WHITESPACE}
    IN  IF at = {} THEN ""
        ELSE SubSeq(o, from, IF stop = {} THEN Len(o)
                             ELSE (CHOOSE j \in stop : \A n \in stop : j <= n) - 1)

\* o.match(new RegExp(`${k}=(.+?)(?=\\s+\\w+=|$)`, 'i'))?.[1]?.trim() || '':
\* after the leftmost k= that has a match, the shortest run of characters of
\* one line that is followed by white space and a word with '=' or by the end
\* of the text
getSpaces(o, k) ==
    LET RECURSIVE RunEnd(_, _)
        RunEnd(j, class) ==
            IF j > Len(o) \/ CharAt(o, j) \notin class THEN j - 1 ELSE RunEnd(j + 1, class)
        Follows(j) ==
            \/ j > Len(o)
            \/ LET a == RunEnd(j, WHITESPACE)
                   b == RunEnd(a + 1, UPPER \cup LOWER \cup DIGITS \cup {"_"})
               IN  a >= j /\ b > a /\ b < Len(o) /\ CharAt(o, b + 1) = "="
        key  == ToLowerCase(k) \o "="
        low  == ToLowerCase(o)
        ends(i) == {e \in (i + Len(key))..Len(o) :
                      /\ \A t \in (i + Len(key))..e : CharAt(o, t) \notin {"\n", "\r"}
                      /\ Follows(e + 1)}
        at   == {i \in 1..Len(o) :
                   /\ i + Len(key) <= Len(o)
                   /\ SubSeq(low, i, i + Len(key) - 1) = key
                   /\ ends(i) # {}}
        i0   == CHOOSE i \in at : \A j \in at : i <= j
    IN  IF at = {} THEN ""
        ELSE Trim(SubSeq(o, i0 + Len(key), CHOOSE e \in ends(i0) : \A n \in ends(i0) : e <= n))

\* the null that getJobDetails returns for a job it cannot show
NotFound == [null |-> TRUE]

\* a variant that parses whatever a failed command printed
getJobDetails_ignoresFailure(result) ==
    IF result.stdout = "" \/ Includes(result.stdout, "Invalid job id")
    THEN NotFound
    ELSE [jobId |-> get(result.stdout, "JobId"), name |-> get(result.stdout, "JobName"),
          partition |-> get(result.stdout, "Partition"),
          state |-> parseJobState(get(result.stdout, "JobState")),
          stateRaw |-> get(result.stdout, "JobState"),
          nodelist |-> get(result.stdout, "NodeList"),
          command |-> getSpaces(result.stdout, "Command"),
          submitLine |-> IF getSpaces(result.stdout, "SubmitLine") # ""
                         THEN getSpaces(result.stdout, "SubmitLine")
                         ELSE getSpaces(result.stdout, "Command"),
          arrayJobId |-> get(result.stdout, "ArrayJobId")]

\* getJobDetails, from the result of scontrol show job; of the record, the
\* fields read with get() that the views and commands use
getJobDetails(result) ==
    IF ~result.success \/ result.stdout = "" \/ Includes(result.stdout, "Invalid job id")
    THEN NotFound
    ELSE [jobId |-> get(result.stdout, "JobId"), name |-> get(result.stdout, "JobName"),
          partition |-> get(result.stdout, "Partition"),
          state |-> parseJobState(get(result.stdout, "JobState")),
          stateRaw |-> get(result.stdout, "JobState"),
          nodelist |-> get(result.stdout, "NodeList"),
          command |-> getSpaces(result.stdout, "Command"),
          submitLine |-> IF getSpaces(result.stdout, "SubmitLine") # ""
                         THEN getSpaces(result.stdout, "SubmitLine")
                         ELSE getSpaces(result.stdout, "Command"),
          arrayJobId |-> get(result.stdout, "ArrayJobId")]

\* a variant that reports the job as cancelled whatever scancel did
cancelJob_alwaysTrue(jobId, result) == Returned(TRUE)

\* cancelJob, from the result of scancel <jobId> on
cancelJob(jobId, result) ==
    IF ~result.success /\ result.stderr # ""
    THEN Threw("Failed to cancel job " \o jobId \o ": " \o result.stderr)
    ELSE Returned(TRUE)

\* resubmitJob, from what scontrol show job and then sbatch do; with the
\* outcome, the commands it ran after the job details were read
resubmitJob(jobId, scontrol, sbatch) ==
    LET details == getJobDetails(executeCommand(scontrol))
        line    == IF details.submitLine # "" THEN details.submitLine ELSE details.command
        cmd     == IF Len(line) >= 6 /\ SubSeq(line, 1, 6) = "sbatch" THEN line
                   ELSE "sbatch " \o line
        result  == executeCommand(sbatch)
        \* result.stdout.match(/Submitted batch job (\d+)/)
        phrase  == "Submitted batch job "
        at      == {i \in 1..Len(result.stdout) :
                      /\ i + Len(phrase) <= Len(result.stdout)
                      /\ SubSeq(result.stdout, i, i + Len(phrase) - 1) = phrase
                      /\ CharAt(result.stdout, i + Len(phrase)) \in DIGITS}
        from    == (CHOOSE i \in at : \A j \in at : i <= j) + Len(phrase)
        stop    == {j \in from..Len(result.stdout) : CharAt(result.stdout, j) \notin DIGITS}
    IN  IF details = NotFound
        THEN [ret |-> Threw("Job " \o jobId \o " not found"), executed |-> <<>>]
        ELSE IF line = ""
        THEN [ret |-> Threw("No submit command found for job " \o jobId), executed |-> <<>>]
        ELSE [executed |-> <<cmd>>,
              ret |-> IF ~result.success
                      THEN Threw("Failed to resubmit job: " \o result.stderr)
                      ELSE IF at = {}
                      THEN Threw("Unexpected sbatch output: " \o result.stdout)
                      ELSE Returned(SubSeq(result.stdout, from,
                               IF stop = {} THEN Len(result.stdout)
                               ELSE (CHOOSE j \in stop : \A n \in stop : j <= n) - 1))]

(***************************************************************************)
(* The inputs that are enumerated.                                         *)
(***************************************************************************)
BoundedSeq(S, n) == UNION {[1..k -> S] : k \in 0..n}

RECURSIVE JoinWith(_, _)
JoinWith(parts, sep) ==
    IF parts = <<>> THEN ""
    ELSE IF Len(parts) = 1 THEN parts[1]
    ELSE parts[1] \o sep \o JoinWith(Tail(parts), sep)

\* squeue --noheader -o "%i|%j|%P|%T|%M|%l|%D|%R|%S|%e" prints one line per
\* job, the ten fields separated by '|', each line ended by a newline
SqueuePrint(lines) ==
    JoinWith([i \in 1..Len(lines) |-> JoinWith(lines[i], "|") \o "\n"], "")

\* well-formed lines: ten fields, none of which holds '|' or a newline
WellFormedLines ==
    {<<id, name, "gpu", st, "0:10", "1:00", n, "n1", "N/A", "N/A">> :
        id \in {"1", "2_1"}, name \in {"job", " Train "},
        st \in {"R", "PD (Dependency)"}, n \in {"1", "12"}}

SqueueListings == BoundedSeq(WellFormedLines, MaxLines)

\* slurm.maxJobsDisplayed: the default and some small settings
MaxJobsDisplayedValues == {1, 2, 100}

\* JobFilter.name: absent, a pattern of literals, an invalid pattern
NameFilters == {"", "train", "("}

\* letters of the state codes, and one letter of no code
CodeLetters ==
    {"A","B","C","D","E","F","G","I","L","M","N","O","P","Q","R","S","T","V","X"}

RECURSIVE Words(_)
Words(n) ==
    IF n = 0 THEN {""}
    ELSE Words(n - 1) \cup {w \o c : w \in Words(n - 1), c \in CodeLetters}

StateCodes == Words(MaxCodeLen) \cup DOMAIN STATE_MAP

\* what may follow the code in the state column
StateSuffixes == {"", " ", " (Dependency)", "(x)", "7", "_1", "x", "topped"}

StateTokens == {c \o x : c \in StateCodes, x \in StateSuffixes}

(***************************************************************************)
(* slurmProvider.ts: tree items.                                           *)
(***************************************************************************)
\* new vscode.TreeItem(label)
TreeItem(label) == [kind |-> "message", label |-> label]

\* job.arrayJobId, an optional field: undefined reads as the empty string
ArrayJobIdOf(job) == IF "arrayJobId" \in DOMAIN job THEN job.arrayJobId ELSE ""

JobTreeItem(job, isArrayParent, arrayTasks) ==
    [kind |-> "job",
     id |-> IF isArrayParent
            THEN "array-" \o (IF ArrayJobIdOf(job) # "" THEN ArrayJobIdOf(job) ELSE job.jobId)
            ELSE job.jobId,
     job |-> job, isArrayParent |-> isArrayParent, arrayTasks |-> arrayTasks]

CategoryTreeItem(state, count) == [kind |-> "category", state |-> state, count |-> count]

(***************************************************************************)
(* slurmProvider.ts: SlurmJobsProvider.                                    *)
(***************************************************************************)
NoFilter == [name |-> ""]

SlurmJobsProvider(showOnlyMyJobs) ==
    [jobs |-> <<>>, groupByState |-> TRUE, groupArrayJobs |-> TRUE,
     lastError |-> NULL, isLoading |-> FALSE, filter |-> NoFilter,
     showOnlyMyJobs |-> showOnlyMyJobs]

toggleGrouping(p) == [p EXCEPT !.groupByState = ~p.groupByState]

toggleArrayGrouping(p) == [p EXCEPT !.groupArrayJobs = ~p.groupArrayJobs]

\* a variant that merges the new filter into the previous one: a field the new
\* filter leaves out keeps its previous value
setFilter_merge(p, filter) ==
    [p EXCEPT !.filter = [name |-> IF filter.name # "" THEN filter.name ELSE p.filter.name]]

setFilter(p, filter) == [p EXCEPT !.filter = filter]

\* refresh(), up to its await: the loading flag is raised and the filter copied
refreshBegin(p) == [p EXCEPT !.isLoading = TRUE]

\* a refresh that keeps the previous list when the fetch fails
refreshEnd_keepList(p, result) ==
    IF result.threw
    THEN [p EXCEPT !.lastError = result.message, !.isLoading = FALSE]
    ELSE [p EXCEPT !.jobs = result.value, !.lastError = NULL, !.isLoading = FALSE]

\* refresh(), from the await on: the outcome of the fetch overwrites the
\* list and the error, and the loading flag is dropped
refreshEnd(p, result) ==
    IF result.threw
    THEN [p EXCEPT !.lastError = result.message, !.jobs = <<>>, !.isLoading = FALSE]
    ELSE [p EXCEPT !.jobs = result.value, !.lastError = NULL, !.isLoading = FALSE]

\* the distinct values of a sequence, in the order of their first occurrence
RECURSIVE Distinct(_)
Distinct(seq) ==
    IF seq = <<>> THEN <<>>
    ELSE LET init == Distinct(SubSeq(seq, 1, Len(seq) - 1))
             last == seq[Len(seq)]
         IN  IF \E i \in 1..Len(init) : init[i] = last THEN init ELSE Append(init, last)

\* the positions of a sequence that satisfy a test, in order
RECURSIVE Select(_, _)
Select(seq, keep) ==
    IF seq = <<>> THEN <<>>
    ELSE Select(SubSeq(seq, 1, Len(seq) - 1), keep)
         \o (IF Len(seq) \in keep THEN <<seq[Len(seq)]>> ELSE <<>>)

\* job.jobId.includes('_') ? job.jobId.split('_')[0] : job.arrayJobId
ArrayIdOf(job) ==
    IF \E i \in 1..Len(job.jobId) : CharAt(job.jobId, i) = "_"
    THEN Split(job.jobId, "_")[1]
    ELSE ArrayJobIdOf(job)

\* a variant that makes a parent for a lone task too
getJobItems_parentForOne(p, jobs) ==
    IF ~p.groupArrayJobs
    THEN [i \in 1..Len(jobs) |-> JobTreeItem(jobs[i], FALSE, <<>>)]
    ELSE LET groupIds == Distinct(Select([i \in 1..Len(jobs) |-> ArrayIdOf(jobs[i])],
                                         {i \in 1..Len(jobs) : ArrayIdOf(jobs[i]) # ""}))
             tasks(id) == Select(jobs, {i \in 1..Len(jobs) : ArrayIdOf(jobs[i]) = id})
             regular   == Select(jobs, {i \in 1..Len(jobs) : ArrayIdOf(jobs[i]) = ""})
             items == [g \in 1..Len(groupIds) |->
                         IF Len(tasks(groupIds[g])) = 0
                         THEN JobTreeItem(tasks(groupIds[g])[1], FALSE, <<>>)
                         ELSE JobTreeItem(
                                [k \in DOMAIN tasks(groupIds[g])[1] \cup {"arrayJobId"} |->
                                   IF k = "arrayJobId" THEN groupIds[g]
                                   ELSE tasks(groupIds[g])[1][k]],
                                TRUE, tasks(groupIds[g]))]
         IN  items \o [i \in 1..Len(regular) |-> JobTreeItem(regular[i], FALSE, <<>>)]

getJobItems(p, jobs) ==
    IF ~p.groupArrayJobs
    THEN [i \in 1..Len(jobs) |-> JobTreeItem(jobs[i], FALSE, <<>>)]
    ELSE LET groupIds == Distinct(Select([i \in 1..Len(jobs) |-> ArrayIdOf(jobs[i])],
                                         {i \in 1..Len(jobs) : ArrayIdOf(jobs[i]) # ""}))
             tasks(id) == Select(jobs, {i \in 1..Len(jobs) : ArrayIdOf(jobs[i]) = id})
             regular   == Select(jobs, {i \in 1..Len(jobs) : ArrayIdOf(jobs[i]) = ""})
             items == [g \in 1..Len(groupIds) |->
                         IF Len(tasks(groupIds[g])) = 1
                         THEN JobTreeItem(tasks(groupIds[g])[1], FALSE, <<>>)
                         ELSE JobTreeItem(
                                [k \in DOMAIN tasks(groupIds[g])[1] \cup {"arrayJobId"} |->
                                   IF k = "arrayJobId" THEN groupIds[g]
                                   ELSE tasks(groupIds[g])[1][k]],
                                TRUE, tasks(groupIds[g]))]
         IN  items \o [i \in 1..Len(regular) |-> JobTreeItem(regular[i], FALSE, <<>>)]

\* the states of the jobs in order of first occurrence, each with its count
getJobCounts(p) ==
    LET states == Distinct([i \in 1..Len(p.jobs) |-> p.jobs[i].state])
    IN  [k \in 1..Len(states) |->
           [state |-> states[k],
            count |-> Cardinality({i \in 1..Len(p.jobs) : p.jobs[i].state = states[k]})]]

\* a variant that lists PENDING before RUNNING
CategoryOrder_pendingFirst ==
    <<"PENDING", "RUNNING", "COMPLETING", "COMPLETED", "FAILED", "CANCELLED", "TIMEOUT">>

CategoryOrder ==
    <<"RUNNING", "PENDING", "COMPLETING", "COMPLETED", "FAILED", "CANCELLED", "TIMEOUT">>

RECURSIVE SumCounts(_)
SumCounts(entries) ==
    IF entries = <<>> THEN 0 ELSE Head(entries).count + SumCounts(Tail(entries))

getCategoryItems(p) ==
    LET counts  == getJobCounts(p)
        countOf(st) == SumCounts(Select(counts, {k \in 1..Len(counts) : counts[k].state = st}))
        listed  == Select(CategoryOrder, {k \in 1..Len(CategoryOrder) : countOf(CategoryOrder[k]) # 0})
        items   == [k \in 1..Len(listed) |-> CategoryTreeItem(listed[k], countOf(listed[k]))]
        otherCount == SumCounts(Select(counts, {k \in 1..Len(counts) :
                          \A o \in 1..Len(CategoryOrder) : CategoryOrder[o] # counts[k].state}))
    IN  IF otherCount > 0 THEN Append(items, CategoryTreeItem("OTHER", otherCount)) ELSE items

\* getChildren() without an element asks for the root
NoElement == [kind |-> "undefined"]

\* getChildren(element)
getChildren(p, element) ==
    IF p.isLoading THEN <<TreeItem("Loading...")>>
    ELSE IF p.lastError # NULL /\ p.lastError # "" THEN <<TreeItem("Error: " \o p.lastError)>>
    ELSE IF element = NoElement
         THEN IF Len(p.jobs) = 0 THEN <<TreeItem("No jobs found")>>
              ELSE IF p.groupByState THEN getCategoryItems(p) ELSE getJobItems(p, p.jobs)
    ELSE IF element.kind = "job" /\ element.isArrayParent
         THEN [i \in 1..Len(element.arrayTasks) |-> JobTreeItem(element.arrayTasks[i], FALSE, <<>>)]
    ELSE IF element.kind = "category"
         THEN getJobItems(p, Select(p.jobs, {i \in 1..Len(p.jobs) : p.jobs[i].state = element.state}))
    ELSE <<>>

\* the listings the cluster answers a provider with: at most one line per job
Line(id, name, st) == <<id, name, "gpu", st, "0:10", "1:00", "1", "n1", "N/A", "N/A">>

ProviderLines ==
    {Line("1", "Train", st) : st \in {"R", "PD"}} \cup {Line("2", "job", st) : st \in {"R", "PD"}}

DistinctIds(lines) == \A i, j \in 1..Len(lines) : i # j => lines[i][1] # lines[j][1]

ProviderListings == {ls \in BoundedSeq(ProviderLines, 2) : DistinctIds(ls)}

\* what the squeue process of a provider refresh may do
ProviderProcs ==
    {ExecOk(SqueuePrint(ls)) : ls \in ProviderListings}
    \cup {ExecFail("squeue: error", "Command failed")}

\* slurm.maxJobsDisplayed, default
DefaultMaxJobsDisplayed == 100

\* getJobs on every answer of the cluster and every name filter, computed once
ProviderFetch ==
    [proc \in ProviderProcs, name \in NameFilters |->
        getJobs(executeCommand(proc), [name |-> name], DefaultMaxJobsDisplayed)]

(***************************************************************************)
(* The extension: configuration, notifications and the reconciliation of   *)
(* two snapshots (checkJobStateChanges).                                   *)
(***************************************************************************)
\* the notification settings of SlurmConfig
SlurmConfig(enable, onComplete, onFail, onStart) ==
    [enableNotifications |-> enable, notifyOnComplete |-> onComplete,
     notifyOnFail |-> onFail, notifyOnStart |-> onStart]

\* loadConfig with no setting changed by the user
DefaultConfig == SlurmConfig(TRUE, TRUE, TRUE, FALSE)

\* the settings the user can have chosen: every notification on, or every
\* one but one (the default among them)
Configs ==
    {SlurmConfig(TRUE, TRUE, TRUE, TRUE), SlurmConfig(FALSE, TRUE, TRUE, TRUE),
     SlurmConfig(TRUE, FALSE, TRUE, TRUE), SlurmConfig(TRUE, TRUE, FALSE, TRUE),
     DefaultConfig}

showInformationMessage(text) == [level |-> "info", message |-> text]

showWarningMessage(text) == [level |-> "warning", message |-> text]

\* new Map(jobs.map(j => [j.jobId, j])): the keys in insertion order
MapKeys(jobs) == Distinct([i \in 1..Len(jobs) |-> jobs[i].jobId])

MapHas(jobs, jobId) == \E i \in 1..Len(jobs) : jobs[i].jobId = jobId

\* Map.get: the entry set last for the key
MapGet(jobs, jobId) ==
    jobs[CHOOSE i \in 1..Len(jobs) :
            /\ jobs[i].jobId = jobId
            /\ \A k \in (i + 1)..Len(jobs) : jobs[k].jobId # jobId]

\* previousJobStates.get(jobId), NULL for undefined
StateGet(states, jobId) == IF jobId \in DOMAIN states THEN states[jobId] ELSE NULL

\* previousJobStates.set(jobId, state)
StateSet(states, jobId, state) ==
    [k \in DOMAIN states \cup {jobId} |-> IF k = jobId THEN state ELSE states[k]]

Concat(seqs) == LET RECURSIVE Cat(_)
                    Cat(n) == IF n = 0 THEN <<>> ELSE Cat(n - 1) \o seqs[n]
                IN  Cat(Len(seqs))

FailureStates == {"FAILED", "TIMEOUT", "OUT_OF_MEMORY", "NODE_FAIL"}

StartedMessage(job) ==
    showInformationMessage("Job " \o job.jobId \o " (" \o job.name \o ") started running")

CompletedMessage(job) ==
    showInformationMessage("Job " \o job.jobId \o " (" \o job.name \o ") completed")

\* job.state.toLowerCase() of the failure states, computed once
LowerCaseState == [st \in FailureStates |-> ToLowerCase(st)]

FailedMessage(job) ==
    showWarningMessage("Job " \o job.jobId \o " (" \o job.name \o ") "
                       \o (IF job.state \in FailureStates THEN LowerCaseState[job.state]
                           ELSE ToLowerCase(job.state)))

\* the test of the loop over the new jobs that announces a start
StartedNow(cfg, states, oldJobs, newJob) ==
    /\ cfg.notifyOnStart /\ newJob.state = "RUNNING"
    /\ \/ StateGet(states, newJob.jobId) = "PENDING"
       \/ /\ MapHas(oldJobs, newJob.jobId)
          /\ MapGet(oldJobs, newJob.jobId).state = "PENDING"

\* a test that takes every job that left the list for a completed one
CompletedNow_anyState(cfg, oldJob, newJobs) ==
    /\ ~MapHas(newJobs, oldJob.jobId)
    /\ cfg.notifyOnComplete

\* the test of the loop over the old jobs that announces a completion
CompletedNow(cfg, oldJob, newJobs) ==
    /\ ~MapHas(newJobs, oldJob.jobId)
    /\ cfg.notifyOnComplete
    /\ oldJob.state \in {"RUNNING", "COMPLETING"}

\* a test that warns at every refresh while the job is in a failure state
FailedNow_everyRefresh(cfg, prevState, job) ==
    /\ cfg.notifyOnFail /\ job.state \in FailureStates
    /\ prevState # NULL

\* the test of the loop over the new jobs that warns of a failure
FailedNow(cfg, prevState, job) ==
    /\ cfg.notifyOnFail /\ job.state \in FailureStates
    /\ prevState # NULL /\ prevState # job.state

\* the loop over the new jobs that warns of failures and records the states
RECURSIVE FailedLoop(_, _, _)
FailedLoop(cfg, states, newJobs) ==
    IF newJobs = <<>> THEN [shown |-> <<>>, previousJobStates |-> states]
    ELSE LET before == FailedLoop(cfg, states, SubSeq(newJobs, 1, Len(newJobs) - 1))
             job == newJobs[Len(newJobs)]
             prevState == StateGet(before.previousJobStates, job.jobId)
         IN  [shown |-> before.shown
                        \o (IF FailedNow(cfg, prevState, job)
                            THEN <<FailedMessage(job)>> ELSE <<>>),
              previousJobStates |-> StateSet(before.previousJobStates, job.jobId, job.state)]

\* the messages shown by one reconciliation and the side-table it leaves
checkJobStateChanges(cfg, states, oldJobs, newJobs) ==
    IF ~cfg.enableNotifications THEN [shown |-> <<>>, previousJobStates |-> states]
    ELSE LET newKeys == MapKeys(newJobs)
             oldKeys == MapKeys(oldJobs)
             started ==
                 [i \in 1..Len(newKeys) |->
                    LET newJob == MapGet(newJobs, newKeys[i])
                    IN  IF StartedNow(cfg, states, oldJobs, newJob)
                        THEN <<StartedMessage(newJob)>> ELSE <<>>]
             completed ==
                 [i \in 1..Len(oldKeys) |->
                    LET oldJob == MapGet(oldJobs, oldKeys[i])
                    IN  IF CompletedNow(cfg, oldJob, newJobs)
                        THEN <<CompletedMessage(oldJob)>> ELSE <<>>]
             failed == FailedLoop(cfg, states, newJobs)
         IN  [shown |-> Concat(started) \o Concat(completed) \o failed.shown,
              previousJobStates |-> failed.previousJobStates]

\* what squeue answers a refresh cycle with: the job "1" in one of its
\* states, or nothing
CycleLines ==
    {Line("1", "Train", st) : st \in {"PD", "R", "CG", "F", "TO"}}

CycleListings == {ls \in BoundedSeq(CycleLines, 1) : DistinctIds(ls)}

CycleProcs ==
    {ExecOk(SqueuePrint(ls)) : ls \in CycleListings}
    \cup {ExecFail("squeue: error", "Command failed")}

\* getMyJobs with the empty filter on every answer, computed once
CycleFetch ==
    [proc \in CycleProcs |->
        getJobs(executeCommand(proc), NoFilter, DefaultMaxJobsDisplayed)]

\* what squeue answers the refresh of the queue view with
QueueProcs ==
    {ExecOk(SqueuePrint(<<Line("7", "other", "R")>>))}

QueueFetch ==
    [proc \in QueueProcs |->
        getJobs(executeCommand(proc), NoFilter, DefaultMaxJobsDisplayed)]

VARIABLES call, jobsProvider, refreshes, lastFinished,
          queueProvider, previousJobStates, cycles, started, lastCheck, notified,
          refreshInterval, timers, created, settings, lifecycle,
          streamingProcesses, spawned

vars == <<call, jobsProvider, refreshes, lastFinished,
          queueProvider, previousJobStates, cycles, started, lastCheck, notified,
          refreshInterval, timers, created, settings, lifecycle,
          streamingProcesses, spawned>>

timerVars == <<refreshInterval, timers, created, settings, lifecycle>>

extVars == <<queueProvider, previousJobStates, cycles, started, lastCheck, notified>>

Idle == [st |-> "idle", baseFilter |-> NoFilter]

None == [id |-> 0]

\* no call of refreshJobs is between its reconciliation and its return
NoCheck == [checked |-> FALSE, config |-> DefaultConfig, oldJobs |-> <<>>, newJobs |-> <<>>, shown |-> <<>>, peers |-> {}]

\* the extension as activate builds it, before its first refreshJobs
InitExtension ==
    /\ queueProvider = SlurmJobsProvider(FALSE)
    /\ previousJobStates = <<>>
    /\ cycles = EmptyBag
    /\ started = 0
    /\ lastCheck = NoCheck
    /\ notified = [started |-> {}, failed |-> {}]

\* let refreshInterval: undefined, no handle stored (handles count from 1)
NoHandle == 0

\* the slurm.autoRefresh and slurm.refreshInterval settings, at their defaults
DefaultSettings == [autoRefresh |-> TRUE, refreshInterval |-> 30]

\* streamingProcesses: new Map(), and no tail process was ever spawned
InitStreams ==
    /\ streamingProcesses = {}
    /\ spawned = <<>>

\* no timer was ever set; the runtime holds none
InitTimer ==
    /\ refreshInterval = NoHandle
    /\ timers = {}
    /\ created = 0
    /\ settings = DefaultSettings
    /\ lifecycle = "active"

Init ==
    /\ call = [fn |-> "none"]
    /\ jobsProvider = SlurmJobsProvider(TRUE)
    /\ refreshes = [i \in 1..MaxRefreshes |-> Idle]
    /\ lastFinished = None
    /\ InitExtension
    /\ InitTimer
    /\ InitStreams

(***************************************************************************)
(* Calls of the pure functions of SlurmService: the initial state holds    *)
(* the arguments of one call, the action runs it.                          *)
(***************************************************************************)
NoReturn == [threw |-> FALSE, value |-> NULL]

InitParse ==
    /\ \/ \E code \in StateTokens :
             call = [fn |-> "parseJobState", done |-> FALSE, code |-> code, ret |-> NULL]
       \/ \E lines \in SqueueListings, ok \in BOOLEAN,
             name \in NameFilters, max \in MaxJobsDisplayedValues :
             call = [fn |-> "getJobs", done |-> FALSE, lines |-> lines, success |-> ok,
                     name |-> name, maxJobsDisplayed |-> max, ret |-> NoReturn]
    /\ jobsProvider = SlurmJobsProvider(TRUE)
    /\ refreshes = [i \in 1..MaxRefreshes |-> Idle]
    /\ lastFinished = None
    /\ InitExtension
    /\ InitTimer
    /\ InitStreams

CallParseJobState ==
    /\ call.fn = "parseJobState" /\ ~call.done
    /\ call' = [call EXCEPT !.done = TRUE, !.ret = parseJobState(call.code)]
    /\ UNCHANGED <<streamingProcesses, spawned, jobsProvider, refreshes, lastFinished, extVars, timerVars>>

CallGetJobs ==
    /\ call.fn = "getJobs" /\ ~call.done
    /\ LET proc == IF call.success THEN ExecOk(SqueuePrint(call.lines))
                   ELSE ExecFail("squeue: error", "Command failed")
       IN  call' = [call EXCEPT !.done = TRUE,
                      !.ret = getJobs(executeCommand(proc), [name |-> call.name],
                                      call.maxJobsDisplayed)]
    /\ UNCHANGED <<streamingProcesses, spawned, jobsProvider, refreshes, lastFinished, extVars, timerVars>>

NextParse == CallParseJobState \/ CallGetJobs

SpecParse == InitParse /\ [][NextParse]_vars

(***************************************************************************)
(* One provider, driven through its public methods.  The refresh() calls   *)
(* are numbered in the order they are made; each suspends at its fetch,    *)
(* and the fetches settle in any order.                                    *)
(***************************************************************************)
ProviderRefresh ==
    \E i \in 1..MaxRefreshes :
        /\ refreshes[i].st = "idle"
        /\ \A j \in 1..(i - 1) : refreshes[j].st # "idle"
        /\ jobsProvider' = refreshBegin(jobsProvider)
        /\ refreshes' = [refreshes EXCEPT ![i] = [st |-> "inflight",
                                                  baseFilter |-> jobsProvider.filter]]
        /\ UNCHANGED <<streamingProcesses, spawned, call, lastFinished, extVars, timerVars>>

\* a provider in which the refresh started last wins: the outcome of a
\* refresh is dropped when a refresh started after it has already settled
ProviderFetchSettles_startOrder ==
    \E i \in 1..MaxRefreshes, proc \in ProviderProcs :
        /\ refreshes[i].st = "inflight"
        /\ LET result == ProviderFetch[proc, refreshes[i].baseFilter.name]
           IN  /\ jobsProvider' = IF \E j \in (i + 1)..MaxRefreshes : refreshes[j].st = "done"
                                  THEN [jobsProvider EXCEPT !.isLoading = FALSE]
                                  ELSE refreshEnd(jobsProvider, result)
               /\ lastFinished' = [id |-> i, success |-> proc.ok,
                                   stdout |-> proc.stdout,
                                   name |-> refreshes[i].baseFilter.name,
                                   result |-> result]
        /\ refreshes' = [refreshes EXCEPT ![i] = [st |-> "done", baseFilter |-> NoFilter]]
        /\ UNCHANGED <<streamingProcesses, spawned, call, extVars, timerVars>>

ProviderFetchSettles ==
    \E i \in 1..MaxRefreshes, proc \in ProviderProcs :
        /\ refreshes[i].st = "inflight"
        /\ LET result == ProviderFetch[proc, refreshes[i].baseFilter.name]
           IN  /\ jobsProvider' = refreshEnd(jobsProvider, result)
               /\ lastFinished' = [id |-> i, success |-> proc.ok,
                                   stdout |-> proc.stdout,
                                   name |-> refreshes[i].baseFilter.name,
                                   result |-> result]
        /\ refreshes' = [refreshes EXCEPT ![i] = [st |-> "done", baseFilter |-> NoFilter]]
        /\ UNCHANGED <<streamingProcesses, spawned, call, extVars, timerVars>>

ProviderSetFilter ==
    \E name \in NameFilters :
        /\ name # jobsProvider.filter.name
        /\ jobsProvider' = setFilter(jobsProvider, [name |-> name])
        /\ UNCHANGED <<streamingProcesses, spawned, call, refreshes, lastFinished, extVars, timerVars>>

NextProvider == ProviderRefresh \/ ProviderFetchSettles \/ ProviderSetFilter

SpecProvider == Init /\ [][NextProvider]_vars

(***************************************************************************)
(* The extension.  Every call of refreshJobs (activation, the timer, a     *)
(* command) is a cycle: it captures the list, starts the refresh of both   *)
(* providers and suspends; the two fetches settle in any order, and the    *)
(* continuation of the cycle runs with the later of the two.  Nothing      *)
(* keeps a cycle from starting while another is suspended, and the cycles  *)
(* in flight are told apart by nothing but what they captured.  The        *)
(* settings are the user's: the service reloads them whenever one changes, *)
(* so a reconciliation may read any of them.  The continuation of a cycle  *)
(* runs to its end before any other handler: it reconciles, then returns.  *)
(***************************************************************************)
Range(seq) == {seq[i] : i \in 1..Len(seq)}

\* refreshJobs, from the end of Promise.all on, under the settings cfg
Reconcile(cycle, newJobs, cfg) ==
    LET r == checkJobStateChanges(cfg, previousJobStates, cycle.oldJobs, newJobs)
    IN  /\ previousJobStates' = r.previousJobStates
        /\ lastCheck' = [checked |-> TRUE, config |-> cfg, oldJobs |-> cycle.oldJobs,
                         newJobs |-> newJobs, shown |-> r.shown,
                         peers |-> cycle.peers]
        /\ notified' =
             [started |-> {newJobs[i].jobId : i \in
                             {k \in 1..Len(newJobs) :
                                /\ newJobs[k].state = "RUNNING"
                                /\ \/ newJobs[k].jobId \in notified.started
                                   \/ StartedMessage(newJobs[k]) \in Range(r.shown)}},
              failed |-> {<<newJobs[i].jobId, newJobs[i].state>> : i \in
                             {k \in 1..Len(newJobs) :
                                /\ newJobs[k].state \in FailureStates
                                /\ \/ <<newJobs[k].jobId, newJobs[k].state>> \in notified.failed
                                   \/ FailedMessage(newJobs[k]) \in Range(r.shown)}}]

\* a fetch of the cycle settled, the other one is still awaited
StillAwaiting(cycle, which) ==
    /\ cycle.pending # {which}
    /\ cycles' = (cycles (-) SetToBag({cycle}))
                 (+) SetToBag({[cycle EXCEPT !.pending = @ \ {which}]})
    /\ UNCHANGED <<previousJobStates, lastCheck, notified>>

\* the later fetch of the cycle settled: refreshJobs goes on
\* (peers is history: the started and completed notifications shown so far
\* by the calls in flight together with this one that captured the same
\* previous snapshot)
AllSettled(cycle, which, newJobs) ==
    /\ cycle.pending = {which}
    /\ \E cfg \in Configs :
          /\ Reconcile(cycle, newJobs, cfg)
          /\ LET shown == lastCheck'.shown
                 Mark(c) == IF c.oldJobs = cycle.oldJobs
                            THEN [c EXCEPT !.peers = @ \cup {m \in Range(shown) : m.level = "info"}]
                            ELSE c
             IN  cycles' = BagOfAll(Mark, cycles (-) SetToBag({cycle}))

\* refreshJobs, up to its await
BeginRefreshJobs ==
    /\ ~lastCheck.checked
    /\ started < MaxCycles
    /\ started' = started + 1
    /\ cycles' = cycles (+) SetToBag({[oldJobs |-> jobsProvider.jobs,
                                       pending |-> {"jobs", "queue"}, peers |-> {}]})
    /\ jobsProvider' = refreshBegin(jobsProvider)
    /\ queueProvider' = refreshBegin(queueProvider)
    /\ UNCHANGED <<streamingProcesses, spawned, call, refreshes, lastFinished, previousJobStates, lastCheck, notified>>

StartRefreshJobs == BeginRefreshJobs /\ UNCHANGED timerVars

JobsFetchSettles ==
    \E cycle \in BagToSet(cycles), proc \in CycleProcs :
        /\ ~lastCheck.checked
        /\ "jobs" \in cycle.pending
        /\ jobsProvider' = refreshEnd(jobsProvider, CycleFetch[proc])
        /\ \/ StillAwaiting(cycle, "jobs")
           \/ AllSettled(cycle, "jobs", jobsProvider'.jobs)
        /\ UNCHANGED <<streamingProcesses, spawned, call, refreshes, lastFinished, queueProvider, started, timerVars>>

QueueFetchSettles ==
    \E cycle \in BagToSet(cycles), proc \in QueueProcs :
        /\ ~lastCheck.checked
        /\ "queue" \in cycle.pending
        /\ queueProvider' = refreshEnd(queueProvider, QueueFetch[proc])
        /\ \/ StillAwaiting(cycle, "queue")
           \/ AllSettled(cycle, "queue", jobsProvider.jobs)
        /\ UNCHANGED <<streamingProcesses, spawned, call, refreshes, lastFinished, jobsProvider, started, timerVars>>

\* refreshJobs returns to its caller once the reconciliation is done
RefreshJobsReturns ==
    /\ lastCheck.checked
    /\ lastCheck' = NoCheck
    /\ UNCHANGED <<streamingProcesses, spawned, call, refreshes, lastFinished, jobsProvider, queueProvider,
                   previousJobStates, cycles, started, notified, timerVars>>

Next == StartRefreshJobs \/ JobsFetchSettles \/ QueueFetchSettles \/ RefreshJobsReturns

Spec == Init /\ [][Next]_vars

(***************************************************************************)
(* The auto-refresh timer.  The runtime holds the interval timers that     *)
(* were set and not cleared; the extension holds in refreshInterval the    *)
(* handle of the timer it set last.  The extension starts inactive, is     *)
(* activated once and deactivated once; its configuration watcher lives    *)
(* from the one to the other.  The fetches of the cycles that the timer    *)
(* starts are left unsettled here.                                         *)
(***************************************************************************)
\* the values of slurm.autoRefresh and slurm.refreshInterval the user sets
TimerSettings ==
    {[autoRefresh |-> a, refreshInterval |-> n] : a \in BOOLEAN, n \in {10, 30, 60}}

\* clearInterval(handle): the runtime drops the timer of that handle, if any
clearInterval(live, handle) == {t \in live : t.id # handle}

\* a setupAutoRefresh that sets the new timer without clearing the old one
setupAutoRefresh_noClear(cfg) ==
    IF cfg.autoRefresh
    THEN /\ created < MaxTimers
         /\ created' = created + 1
         /\ refreshInterval' = created + 1
         /\ timers' = timers \cup {[id |-> created + 1, ms |-> cfg.refreshInterval * 1000]}
    ELSE /\ timers' = timers
         /\ UNCHANGED <<refreshInterval, created>>

\* setupAutoRefresh under the settings cfg; setInterval hands out a new handle
setupAutoRefresh(cfg) ==
    LET cleared == IF refreshInterval # NoHandle
                   THEN clearInterval(timers, refreshInterval) ELSE timers
    IN  IF cfg.autoRefresh
        THEN /\ created < MaxTimers
             /\ created' = created + 1
             /\ refreshInterval' = created + 1
             /\ timers' = cleared \cup {[id |-> created + 1,
                                         ms |-> cfg.refreshInterval * 1000]}
        ELSE /\ timers' = cleared
             /\ UNCHANGED <<refreshInterval, created>>

\* the extension before activate, under any settings of the user
InitAutoRefresh ==
    /\ call = [fn |-> "none"]
    /\ jobsProvider = SlurmJobsProvider(TRUE)
    /\ refreshes = [i \in 1..MaxRefreshes |-> Idle]
    /\ lastFinished = None
    /\ InitExtension
    /\ refreshInterval = NoHandle
    /\ timers = {}
    /\ created = 0
    /\ settings \in TimerSettings
    /\ lifecycle = "inactive"
    /\ InitStreams

\* activate: ..., refreshJobs(); setupAutoRefresh()
Activate ==
    /\ lifecycle = "inactive"
    /\ lifecycle' = "active"
    /\ BeginRefreshJobs
    /\ setupAutoRefresh(settings)
    /\ UNCHANGED settings

\* the user changes slurm.autoRefresh or slurm.refreshInterval while the
\* watcher is subscribed
SettingChanged ==
    \E cfg \in TimerSettings :
        /\ lifecycle = "active"
        /\ cfg # settings
        /\ settings' = cfg
        /\ setupAutoRefresh(cfg)
        /\ UNCHANGED <<streamingProcesses, spawned, call, jobsProvider, refreshes, lastFinished, extVars, lifecycle>>

\* the same change with no watcher subscribed
SettingChangedUnwatched ==
    \E cfg \in TimerSettings :
        /\ lifecycle # "active"
        /\ cfg # settings
        /\ settings' = cfg
        /\ UNCHANGED <<streamingProcesses, spawned, call, jobsProvider, refreshes, lastFinished, extVars,
                       refreshInterval, timers, created, lifecycle>>

\* slurm.toggleAutoRefresh: the setting is flipped, which the watcher sees
ToggleAutoRefresh ==
    /\ lifecycle = "active"
    /\ settings' = [settings EXCEPT !.autoRefresh = ~settings.autoRefresh]
    /\ setupAutoRefresh(settings')
    /\ UNCHANGED <<streamingProcesses, spawned, call, jobsProvider, refreshes, lastFinished, extVars, lifecycle>>

\* a live timer fires: refreshJobs is called
TimerTick ==
    /\ timers # {}
    /\ BeginRefreshJobs
    /\ UNCHANGED timerVars

deactivate ==
    /\ lifecycle = "active"
    /\ lifecycle' = "deactivated"
    /\ timers' = IF refreshInterval # NoHandle
                 THEN clearInterval(timers, refreshInterval) ELSE timers
    /\ UNCHANGED <<streamingProcesses, spawned, call, jobsProvider, refreshes, lastFinished, extVars,
                   refreshInterval, created, settings>>

NextAutoRefresh ==
    \/ Activate \/ SettingChanged \/ SettingChangedUnwatched
    \/ ToggleAutoRefresh \/ TimerTick \/ deactivate

SpecAutoRefresh == InitAutoRefresh /\ [][NextAutoRefresh]_vars

(***************************************************************************)
(* The record parsers called on one command result each: getJobs on        *)
(* listings with short lines and odd node counts, getJobAccounting on      *)
(* sacct rows, getPartitions on sinfo rows, getJobDetails on scontrol      *)
(* output; and the command that a refresh of a provider runs.              *)
(***************************************************************************)
\* squeue lines cut after 1, 4, 6 fields, a full line, and lines whose
\* node-count field is empty, not a number, or a number followed by text
QueueRows ==
    LET QueueRow(id, n) == <<id, "job", "gpu", "R", "0:10", "1:00", n, "n1", "N/A", "N/A">>
    IN  {SubSeq(QueueRow("1", "2"), 1, k) : k \in {1, 4, 6, 10}}
        \cup {QueueRow("2", n) : n \in {"", "x", "4x"}}

\* sacct -n -P rows of eleven fields: jobs and their steps; and rows cut short
SacctRows ==
    LET SacctRow(id) ==
            <<id, "job", "gpu", "COMPLETED", "0:10", "1:00", "1", "n1", "N/A", "N/A", "0:0">>
    IN  {SacctRow(id) : id \in {"12345", "12345.batch", "12345.0", "12346"}}
        \cup {SubSeq(SacctRow("12347"), 1, k) : k \in {3, 10}}

\* sinfo rows of seven fields, and rows cut short
SinfoRows ==
    {SubSeq(<<"gpu*", "up", "1:00", "4", "0/4/0/4", "1000", "(null)">>, 1, k) : k \in {2, 4, 5, 7}}
    \cup {<<"cpu", "down", "infinite", "x", "0/0/2/2", "1000", "(null)">>}

\* what scontrol show job may do: print a record (with or without NodeList,
\* and as scontrol lays it out, ReqNodeList and ExcNodeList on the line before
\* NodeList), print the marker alone or within other text, print nothing,
\* fail with or without output
ScontrolProcs ==
    {ExecOk(out) : out \in {"JobId=5 JobName=a JobState=RUNNING NodeList=n1\n",
                            "JobId=5 JobName=a JobState=PENDING Partition=gpu\n",
                            "JobId=5 JobName=a\n   ReqNodeList=(null) ExcNodeList=(null)\n   NodeList=n1\n",
                            "slurm_load_jobs error: Invalid job id specified\n",
                            "JobId=5 JobName=a Comment=Invalid job id\n",
                            "", " \n"}}
    \cup {ExecFail("scontrol: error", "Command failed"),
          [ExecFail("", "Command failed") EXCEPT !.stdout = "JobId=5 JobState=FAILED\n"]}

\* an optional field of a JobFilter
Opt(filter, k, default) == IF k \in DOMAIN filter THEN filter[k] ELSE default

\* the part of the settings that getJobs reads to build its command, and
\* the user name that getUser() finds
QueueConfig(showAllUsers, partitionFilter) ==
    [squeueFormat |-> "%i|%j|%P|%T|%M|%l|%D|%R|%S|%e",
     showAllUsers |-> showAllUsers, partitionFilter |-> partitionFilter, user |-> "alice"]

\* a variant that restricts the command to the current user whatever showAllUsers is
squeueArgs_alwaysUser(filter, config, user) ==
    <<"squeue", "--noheader", "-o", "\"" \o config.squeueFormat \o "\"">>
    \o <<"-u", IF Opt(filter, "user", "") # "" THEN filter.user ELSE user>>

\* the words of the squeue command that getJobs(filter) runs; user is what
\* getUser() returns
squeueArgs(filter, config, user) ==
    <<"squeue", "--noheader", "-o", "\"" \o config.squeueFormat \o "\"">>
    \o (IF Opt(filter, "user", "") # "" THEN <<"-u", filter.user>>
        ELSE IF ~config.showAllUsers THEN <<"-u", user>> ELSE <<>>)
    \o (IF Opt(filter, "partition", <<>>) # <<>> THEN <<"-p", JoinWith(filter.partition, ",")>>
        ELSE IF config.partitionFilter # <<>> THEN <<"-p", JoinWith(config.partitionFilter, ",")>>
        ELSE <<>>)
    \o (IF Opt(filter, "state", <<>>) # <<>> THEN <<"-t", JoinWith(filter.state, ",")>> ELSE <<>>)
    \o (IF Opt(filter, "jobIds", <<>>) # <<>> THEN <<"-j", JoinWith(filter.jobIds, ",")>> ELSE <<>>)

\* getMyJobs(filter): getJobs({ ...filter, user: filter?.user || getUser() })
getMyJobsFilter(filter, user) ==
    [k \in DOMAIN filter \cup {"user"} |->
        IF k # "user" THEN filter[k]
        ELSE IF Opt(filter, "user", "") # "" THEN filter.user ELSE user]

\* the service method a refresh of the provider calls and the command it runs
refreshCommand(p, config, user) ==
    [method |-> IF p.showOnlyMyJobs THEN "getMyJobs" ELSE "getJobs",
     args |-> squeueArgs(IF p.showOnlyMyJobs THEN getMyJobsFilter(p.filter, user) ELSE p.filter,
                         config, user)]

\* the filters the filter dialog and slurm.clearFilter set
DialogFilters ==
    {NoFilter, [name |-> "train"], [partition |-> <<"gpu", "cpu">>], [state |-> <<"RUNNING">>]}

InitRecords ==
    /\ \/ \E lines \in BoundedSeq(QueueRows, MaxLines) :
             call = [fn |-> "getJobs", done |-> FALSE, lines |-> lines, success |-> TRUE,
                     name |-> "", maxJobsDisplayed |-> DefaultMaxJobsDisplayed, ret |-> NoReturn]
       \/ \E fn \in {"getJobAccounting", "getPartitions"}, ok \in BOOLEAN :
          \E lines \in BoundedSeq(IF fn = "getPartitions" THEN SinfoRows ELSE SacctRows, MaxLines) :
             call = [fn |-> fn, done |-> FALSE, lines |-> lines, success |-> ok, ret |-> NoReturn]
       \/ \E proc \in ScontrolProcs :
             call = [fn |-> "getJobDetails", done |-> FALSE, proc |-> proc, ret |-> NoReturn]
       \* scancel succeeds, silently or with a warning, or fails: exec then
       \* rejects with an Error whose message names the command, and with
       \* whatever scancel wrote to stderr
       \/ \E proc \in {ExecOk(""), [ExecOk("") EXCEPT !.stderr = "scancel: warning\n"],
                        ExecFail("scancel: error: Invalid job id 5\n", "Command failed: scancel 5"),
                        ExecFail("", "Command failed: scancel 5"),
                        ExecFail(" \n", "Command failed: scancel 5")} :
             call = [fn |-> "cancelJob", done |-> FALSE, jobId |-> "5", proc |-> proc,
                     ret |-> NoReturn]
       \* a job that scontrol does or does not know, submitted with or without
       \* options and script arguments; sbatch then accepts, fails, or prints
       \* no job id
       \/ \E found \in BOOLEAN, command \in {"", "/h/run.sh"},
             submitLine \in {"", "sbatch -p gpu /h/run.sh", "sbatch /h/run.sh lr=1",
                             "/h/run.sh"},
             sbatch \in {ExecOk("Submitted batch job 12346\n"), ExecOk("queued\n"),
                         ExecFail("sbatch: error", "Command failed")} :
             call = [fn |-> "resubmitJob", done |-> FALSE, jobId |-> "5", found |-> found,
                     command |-> command, submitLine |-> submitLine, sbatch |-> sbatch,
                     ret |-> NoReturn]
       \/ \E mine, all \in BOOLEAN, filter \in DialogFilters, parts \in {<<>>, <<"debug">>} :
             call = [fn |-> "refresh", done |-> FALSE,
                     provider |-> setFilter(SlurmJobsProvider(mine), filter),
                     config |-> QueueConfig(all, parts), ret |-> NoReturn]
    /\ jobsProvider = SlurmJobsProvider(TRUE)
    /\ refreshes = [i \in 1..MaxRefreshes |-> Idle]
    /\ lastFinished = None
    /\ InitExtension
    /\ InitTimer
    /\ InitStreams

\* the command of a call: it prints the rows, or fails
ProcOf(c) ==
    IF c.success THEN ExecOk(SqueuePrint(c.lines)) ELSE ExecFail("error", "Command failed")

CallGetJobAccounting ==
    /\ call.fn = "getJobAccounting" /\ ~call.done
    /\ call' = [call EXCEPT !.done = TRUE, !.ret = getJobAccounting(executeCommand(ProcOf(call)))]
    /\ UNCHANGED <<streamingProcesses, spawned, jobsProvider, refreshes, lastFinished, extVars, timerVars>>

CallGetPartitions ==
    /\ call.fn = "getPartitions" /\ ~call.done
    /\ call' = [call EXCEPT !.done = TRUE, !.ret = getPartitions(executeCommand(ProcOf(call)))]
    /\ UNCHANGED <<streamingProcesses, spawned, jobsProvider, refreshes, lastFinished, extVars, timerVars>>

CallGetJobDetails ==
    /\ call.fn = "getJobDetails" /\ ~call.done
    /\ call' = [call EXCEPT !.done = TRUE, !.ret = getJobDetails(executeCommand(call.proc))]
    /\ UNCHANGED <<streamingProcesses, spawned, jobsProvider, refreshes, lastFinished, extVars, timerVars>>

CallCancelJob ==
    /\ call.fn = "cancelJob" /\ ~call.done
    /\ call' = [call EXCEPT !.done = TRUE,
                   !.ret = cancelJob(call.jobId, executeCommand(call.proc))]
    /\ UNCHANGED <<streamingProcesses, spawned, jobsProvider, refreshes, lastFinished, extVars, timerVars>>

\* what scontrol show job prints for a job that was submitted with the line
\* submitLine to run the script command ("" where the dump has no such key)
ScontrolPrint(command, submitLine) ==
    "JobId=5 JobName=a\n   JobState=COMPLETED\n"
    \o (IF command # "" THEN "   Command=" \o command \o "\n" ELSE "")
    \o "   WorkDir=/h\n"
    \o (IF submitLine # "" THEN "   SubmitLine=" \o submitLine \o "\n" ELSE "")

CallResubmitJob ==
    /\ call.fn = "resubmitJob" /\ ~call.done
    /\ call' = [call EXCEPT !.done = TRUE,
                   !.ret = resubmitJob(call.jobId,
                              IF call.found
                              THEN ExecOk(ScontrolPrint(call.command, call.submitLine))
                              ELSE ExecOk("slurm_load_jobs error: Invalid job id specified\n"),
                              call.sbatch)]
    /\ UNCHANGED <<streamingProcesses, spawned, jobsProvider, refreshes, lastFinished, extVars, timerVars>>

\* refresh() of a provider, up to the command that its service call runs
CallRefresh ==
    /\ call.fn = "refresh" /\ ~call.done
    /\ call' = [call EXCEPT !.done = TRUE,
                   !.ret = refreshCommand(call.provider, call.config, call.config.user)]
    /\ UNCHANGED <<streamingProcesses, spawned, jobsProvider, refreshes, lastFinished, extVars, timerVars>>

NextRecords ==
    \/ CallGetJobs \/ CallGetJobAccounting \/ CallGetPartitions \/ CallGetJobDetails
    \/ CallCancelJob \/ CallResubmitJob \/ CallRefresh

SpecRecords == InitRecords /\ [][NextRecords]_vars

(***************************************************************************)
(* slurmProvider.ts: the tree of one provider, rendered from a snapshot.   *)
(* The snapshot is what a finished refresh left in `jobs`; the view asks   *)
(* for the root items and then for the children of every item it expands,  *)
(* and asks again after each toggle (_onDidChangeTreeData).                *)
(***************************************************************************)
\* { ...job, arrayJobId: id }
WithArrayJobId(job, id) ==
    [k \in DOMAIN job \cup {"arrayJobId"} |-> IF k = "arrayJobId" THEN id ELSE job[k]]

SnapshotJob(id, name, st) == ParseSqueueLine(JoinWith(Line(id, name, st), "|"))

\* the jobs a snapshot is drawn from: two tasks of array 5, a lone task of
\* array 7, regular jobs in several states (S is SUSPENDED, outside the fixed
\* category order), and a job that names its array in arrayJobId; besides,
\* one array of four tasks, two of them running and two pending
SnapshotJobs ==
    {SnapshotJob("5_1", "sweep", "R"), SnapshotJob("5_2", "sweep", "PD"),
     SnapshotJob("6", "train", "R"), SnapshotJob("7_1", "eval", "R"),
     SnapshotJob("8", "prep", "S"), SnapshotJob("10", "post", "F"),
     WithArrayJobId(SnapshotJob("9", "sweep", "CD"), "5")}

Snapshots ==
    {js \in BoundedSeq(SnapshotJobs, MaxTreeJobs) :
        \A i, j \in 1..Len(js) : i # j => js[i].jobId # js[j].jobId}
    \cup {<<SnapshotJob("5_1", "sweep", "R"), SnapshotJob("5_2", "sweep", "PD"),
             SnapshotJob("5_3", "sweep", "R"), SnapshotJob("5_4", "sweep", "PD")>>}

\* the root items, each with the items below it, two levels deep (category,
\* array parent, task)
RenderTree(p) ==
    LET Expand(item) ==
            LET below == getChildren(p, item)
            IN  [item |-> item,
                 children |-> [i \in 1..Len(below) |->
                                 [item |-> below[i], children |-> getChildren(p, below[i])]]]
        root == getChildren(p, NoElement)
    IN  [i \in 1..Len(root) |-> Expand(root[i])]

NotRendered == [fn |-> "getChildren", done |-> FALSE, ret |-> <<>>]

InitTree ==
    /\ call = NotRendered
    /\ \E js \in Snapshots : jobsProvider = [SlurmJobsProvider(TRUE) EXCEPT !.jobs = js]
    /\ refreshes = [i \in 1..MaxRefreshes |-> Idle]
    /\ lastFinished = None
    /\ InitExtension
    /\ InitTimer
    /\ InitStreams

CallGetChildren ==
    /\ ~call.done
    /\ call' = [call EXCEPT !.done = TRUE, !.ret = RenderTree(jobsProvider)]
    /\ UNCHANGED <<streamingProcesses, spawned, jobsProvider, refreshes, lastFinished, extVars, timerVars>>

TreeToggleGrouping ==
    /\ jobsProvider' = toggleGrouping(jobsProvider)
    /\ call' = NotRendered
    /\ UNCHANGED <<streamingProcesses, spawned, refreshes, lastFinished, extVars, timerVars>>

TreeToggleArrayGrouping ==
    /\ jobsProvider' = toggleArrayGrouping(jobsProvider)
    /\ call' = NotRendered
    /\ UNCHANGED <<streamingProcesses, spawned, refreshes, lastFinished, extVars, timerVars>>

NextTree == CallGetChildren \/ TreeToggleGrouping \/ TreeToggleArrayGrouping

SpecTree == InitTree /\ [][NextTree]_vars

(***************************************************************************)
(* slurmService.ts: output streaming.  spawned lists the tail processes in *)
(* the order they were spawned, each with its job id and whether it is     *)
(* running, killed (signalled, its close event still to come) or closed;   *)
(* streamingProcesses holds the entries <<jobId, process>> of the Map.     *)
(***************************************************************************)
\* streamJobOutput(jobId, ...): spawn, then streamingProcesses.set(jobId, proc)
streamJobOutput ==
    \E jobId \in {"5", "6"} :
        /\ Len(spawned) < MaxStreams
        /\ spawned' = Append(spawned, [jobId |-> jobId, st |-> "running"])
        /\ streamingProcesses' = {e \in streamingProcesses : e[1] # jobId}
                                  \cup {<<jobId, Len(spawned) + 1>>}
        /\ UNCHANGED <<call, jobsProvider, refreshes, lastFinished, extVars, timerVars>>

\* stopStreamingOutput(jobId): kill the process of the entry, if there is
\* one, and delete the entry
stopStreamingOutput ==
    \E jobId \in {spawned[p].jobId : p \in DOMAIN spawned} :
        /\ spawned' = [p \in DOMAIN spawned |->
                          IF <<jobId, p>> \in streamingProcesses /\ spawned[p].st = "running"
                          THEN [spawned[p] EXCEPT !.st = "killed"] ELSE spawned[p]]
        /\ streamingProcesses' = {e \in streamingProcesses : e[1] # jobId}
        /\ UNCHANGED <<call, jobsProvider, refreshes, lastFinished, extVars, timerVars>>

\* the function that streamJobOutput returned for the process proc:
\* proc.kill(); streamingProcesses.delete(jobId)
StopFunction ==
    \E proc \in DOMAIN spawned :
        /\ spawned' = [spawned EXCEPT ![proc].st = IF @ = "running" THEN "killed" ELSE @]
        /\ streamingProcesses' = {e \in streamingProcesses : e[1] # spawned[proc].jobId}
        /\ UNCHANGED <<call, jobsProvider, refreshes, lastFinished, extVars, timerVars>>

\* the process proc exits, by itself or killed:
\* proc.on('close', () => this.streamingProcesses.delete(jobId))
ProcessCloses ==
    \E proc \in DOMAIN spawned :
        /\ spawned[proc].st # "closed"
        /\ spawned' = [spawned EXCEPT ![proc].st = "closed"]
        /\ streamingProcesses' = {e \in streamingProcesses : e[1] # spawned[proc].jobId}
        /\ UNCHANGED <<call, jobsProvider, refreshes, lastFinished, extVars, timerVars>>

NextStream == streamJobOutput \/ stopStreamingOutput \/ StopFunction \/ ProcessCloses

SpecStream == Init /\ [][NextStream]_vars

(***************************************************************************)
(* Properties of the parsers.                                              *)
(***************************************************************************)
Min(a, b) == IF a <= b THEN a ELSE b

\* the job carries the trimmed text of the fields of the line
BuiltFrom(job, line) ==
    /\ job.jobId = Trim(line[1]) /\ job.name = Trim(line[2])
    /\ job.partition = Trim(line[3]) /\ job.stateRaw = Trim(line[4])
    /\ job.timeUsed = Trim(line[5]) /\ job.timeLimit = Trim(line[6])
    /\ job.nodelist = Trim(line[8]) /\ job.startTime = Trim(line[9])
    /\ job.endTime = Trim(line[10])

GetJobsUnfiltered ==
    call.fn = "getJobs" /\ call.done /\ call.success /\ call.name = ""

\* C1, as stated: a successful squeue output of N well-formed lines, no name
\* filter: getJobs returns exactly N jobs, the i-th built from the i-th line.
C1_ExactlyN ==
    GetJobsUnfiltered =>
        /\ ~call.ret.threw
        /\ Len(call.ret.value) = Len(call.lines)
        /\ \A i \in 1..Len(call.lines) : BuiltFrom(call.ret.value[i], call.lines[i])

\* C1, as amended: with maxJobsDisplayed = M > 0, getJobs returns the first
\* min(N, M) jobs, the i-th built from the i-th line.
C1_FirstMinNM ==
    (GetJobsUnfiltered /\ call.maxJobsDisplayed > 0) =>
        /\ ~call.ret.threw
        /\ Len(call.ret.value) = Min(Len(call.lines), call.maxJobsDisplayed)
        /\ \A i \in 1..Len(call.ret.value) : BuiltFrom(call.ret.value[i], call.lines[i])

\* two lines and a limit of one: the first job only
C1_Witness ==
    /\ GetJobsUnfiltered /\ Len(call.lines) = 2 /\ call.maxJobsDisplayed = 1
    /\ Len(call.ret.value) = 1 /\ call.ret.value[1].jobId = Trim(call.lines[1][1])

IsUpperWord(s) == \A i \in 1..Len(s) : CharAt(s, i) \in UPPER

\* C2: parseJobState maps each of the 20 codes of the table to the state the
\* JobState type documents for it, and returns every other code unchanged.
C2_TableOrUnchanged ==
    (call.fn = "parseJobState" /\ call.done /\ IsUpperWord(call.code)) =>
        call.ret = IF call.code \in DOMAIN JobState THEN JobState[call.code]
                   ELSE call.code

C2_Witness ==
    call.fn = "parseJobState" /\ call.done /\ call.code = "ST" /\ call.ret = "STOPPED"

LeadingAlphabeticRun(s) ==
    LET idx == {i \in 1..Len(s) : CharAt(s, i) \notin (UPPER \cup LOWER)}
    IN  IF idx = {} THEN s
        ELSE SubSeq(s, 1, (CHOOSE i \in idx : \A j \in idx : i <= j) - 1)

\* C3: parseJobState decides on the leading alphabetic run of the token: a
\* table code followed by nothing, a space, a parenthesis or a digit yields
\* the state of the code, and a token whose leading alphabetic run is not a
\* table code is returned verbatim.
C3_LeadingAlphabeticRun ==
    (call.fn = "parseJobState" /\ call.done) =>
        LET run  == LeadingAlphabeticRun(call.code)
            rest == SubSeq(call.code, Len(run) + 1, Len(call.code))
        IN  /\ (run \in DOMAIN JobState
                /\ (rest = "" \/ CharAt(rest, 1) \in ({" ", "("} \cup DIGITS)))
               => call.ret = JobState[run]
            /\ run \notin DOMAIN JobState => call.ret = call.code

(***************************************************************************)
(* Properties of the provider.                                             *)
(***************************************************************************)
\* a step in which a refresh of the provider completes
RefreshCompletes ==
    \E i \in 1..MaxRefreshes : refreshes[i].st = "inflight" /\ refreshes'[i].st = "done"

ErrorItem(p) == <<TreeItem("Error: " \o p.lastError)>>

\* C8: a failed fetch empties the list and records the error message; a
\* recorded error always goes with an empty list; and in the state a refresh
\* completes in, a recorded error makes getChildren return the single
\* 'Error: ...' item.
C8_ErrorClearsList ==
    /\ [](jobsProvider.lastError # NULL => jobsProvider.jobs = <<>>)
    /\ [][RefreshCompletes =>
            /\ lastFinished'.result.threw =>
                  /\ jobsProvider'.jobs = <<>>
                  /\ jobsProvider'.lastError = lastFinished'.result.message
            /\ jobsProvider'.lastError # NULL =>
                  getChildren(jobsProvider', NoElement) = ErrorItem(jobsProvider')]_vars

\* a failed command after a list had been shown
C8_Witness ==
    /\ lastFinished.id > 1 /\ ~lastFinished.success
    /\ jobsProvider.jobs = <<>> /\ jobsProvider.lastError = "Failed to get jobs: squeue: error"
    /\ getChildren(jobsProvider, NoElement) = <<TreeItem("Error: Failed to get jobs: squeue: error")>>

EmptyOutputShowsNoJobs ==
    (lastFinished'.success /\ lastFinished'.stdout = "") =>
        /\ jobsProvider'.jobs = <<>> /\ jobsProvider'.lastError = NULL
        /\ getChildren(jobsProvider', NoElement) = <<TreeItem("No jobs found")>>

\* C9, as stated: a successful command with empty output gives an empty list,
\* no error and the 'No jobs found' item; an error is recorded if and only if
\* the success flag of the command is false.
C9_ErrorIffCommandFailed ==
    [][RefreshCompletes =>
        /\ EmptyOutputShowsNoJobs
        /\ jobsProvider'.lastError # NULL <=> ~lastFinished'.success]_vars

\* C9, as amended: an error is recorded if and only if the success flag is
\* false, or the output is not empty and the name filter is not a valid
\* regular expression.
C9_ErrorIffFailedOrBadPattern ==
    [][RefreshCompletes =>
        /\ EmptyOutputShowsNoJobs
        /\ jobsProvider'.lastError # NULL <=>
              \/ ~lastFinished'.success
              \/ lastFinished'.stdout # "" /\ RegExpThrows(lastFinished'.name)]_vars

C9_Witness ==
    /\ lastFinished.id > 0 /\ lastFinished.success /\ lastFinished.stdout = ""
    /\ ~jobsProvider.isLoading
    /\ jobsProvider.jobs = <<>> /\ jobsProvider.lastError = NULL
    /\ getChildren(jobsProvider, NoElement) = <<TreeItem("No jobs found")>>

NoneInFlight == \A i \in 1..MaxRefreshes : refreshes[i].st # "inflight"

\* C10: once every refresh in flight has completed, the list and the error
\* of the provider are those of the refresh that finished last.
C10_LastFinishedWins ==
    (NoneInFlight /\ lastFinished.id > 0) =>
        IF lastFinished.result.threw
        THEN jobsProvider.jobs = <<>> /\ jobsProvider.lastError = lastFinished.result.message
        ELSE jobsProvider.jobs = lastFinished.result.value /\ jobsProvider.lastError = NULL

\* three refreshes overlapped and the one started first finished last
C10_Witness ==
    /\ \A i \in 1..MaxRefreshes : refreshes[i].st = "done"
    /\ lastFinished.id = 1 /\ ~lastFinished.result.threw
    /\ Len(lastFinished.result.value) = 2
    /\ jobsProvider.jobs = lastFinished.result.value

(***************************************************************************)
(* Properties of the refresh cycle and of its notifications.  A state in   *)
(* which lastCheck.checked holds is the state a cycle leaves when its      *)
(* reconciliation has run: lastCheck holds the two snapshots it compared,  *)
(* the settings it read and the messages it showed.                        *)
(***************************************************************************)
JobIds(jobs) == {jobs[i].jobId : i \in 1..Len(jobs)}

\* the job ids the cluster ever lists
CycleJobIds == {line[1] : line \in CycleLines}

HasPrefix(s, p) == Len(s) >= Len(p) /\ SubSeq(s, 1, Len(p)) = p

HasSuffix(s, p) == Len(s) >= Len(p) /\ SubSeq(s, Len(s) - Len(p) + 1, Len(s)) = p

\* the job X is listed in the snapshot with one of the states
ListedAs(jobs, X, states) ==
    \E i \in 1..Len(jobs) : jobs[i].jobId = X /\ jobs[i].state \in states

\* the messages among shown that announce the event for the job X
Events(shown, level, X, ending) ==
    {i \in 1..Len(shown) :
        /\ shown[i].level = level
        /\ HasPrefix(shown[i].message, "Job " \o X \o " (")
        /\ HasSuffix(shown[i].message, ending)}

StartedEvents(shown, X) == Events(shown, "info", X, ") started running")

CompletedEvents(shown, X) == Events(shown, "info", X, ") completed")

FailedEndings == {") " \o ToLowerCase(st) : st \in FailureStates}

FailedEvents(shown, X) ==
    UNION {Events(shown, "warning", X, ending) : ending \in FailedEndings}

\* C4: with notifications and completion notifications enabled, a refresh
\* cycle emits a completed event for job X exactly when X is in the
\* snapshot the cycle captured with state RUNNING or COMPLETING and is
\* absent from the new snapshot (so none for a job that left while PENDING).
C4_CompletedExactlyWhenGone ==
    (/\ lastCheck.checked
     /\ lastCheck.config.enableNotifications /\ lastCheck.config.notifyOnComplete)
    => \A X \in CycleJobIds :
          CompletedEvents(lastCheck.shown, X) # {}
          <=> /\ ListedAs(lastCheck.oldJobs, X, {"RUNNING", "COMPLETING"})
              /\ X \notin JobIds(lastCheck.newJobs)

\* a job that was COMPLETING left the list and its completion was announced
C4_Witness ==
    /\ lastCheck.checked
    /\ lastCheck.config.enableNotifications /\ lastCheck.config.notifyOnComplete
    /\ ListedAs(lastCheck.oldJobs, "1", {"COMPLETING"})
    /\ lastCheck.newJobs = <<>>
    /\ CompletedEvents(lastCheck.shown, "1") # {}

\* C5: with notifications and start notifications enabled, a cycle that
\* captured X as PENDING and finds it RUNNING emits one started event for
\* X, and no cycle emits a started event for a job for which one was
\* emitted and that every snapshot reconciled since has listed as RUNNING.
C5_StartedExactlyOnce ==
    /\ []((/\ lastCheck.checked
           /\ lastCheck.config.enableNotifications /\ lastCheck.config.notifyOnStart)
          => \A X \in CycleJobIds :
                (/\ ListedAs(lastCheck.oldJobs, X, {"PENDING"})
                 /\ ListedAs(lastCheck.newJobs, X, {"RUNNING"}))
                => Cardinality(StartedEvents(lastCheck.shown, X)) = 1)
    /\ [][lastCheck'.checked
          => \A X \in notified.started : StartedEvents(lastCheck'.shown, X) = {}]_vars

C7_SideTableFollowsSnapshot ==
    /\ [](lastCheck.checked
          => \A i \in 1..Len(lastCheck.newJobs) :
                StateGet(previousJobStates, lastCheck.newJobs[i].jobId)
                    = lastCheck.newJobs[i].state)
    /\ [][\A X \in DOMAIN previousJobStates :
             /\ X \in DOMAIN previousJobStates'
             /\ X \notin JobIds(lastCheck'.newJobs)
                => previousJobStates'[X] = previousJobStates[X]]_vars

(***************************************************************************)
(* Properties of the auto-refresh timer.                                   *)
(***************************************************************************)
\* C11: at most one interval timer is live at any time; a step that sets a
\* timer leaves no timer live that was live before it; no timer is live
\* while auto-refresh is off with the watcher subscribed, nor once the
\* extension is deactivated.
C11_AtMostOneTimer ==
    /\ [](/\ Cardinality(timers) <= 1
          /\ (lifecycle = "active" /\ ~settings.autoRefresh) => timers = {}
          /\ lifecycle = "deactivated" => timers = {})
    /\ [][created' # created => timers' \cap timers = {}]_vars

\* the timer was replaced twice and the last one alone is live
C11_Witness ==
    /\ lifecycle = "active"
    /\ created = 3
    /\ timers = {[id |-> 3, ms |-> 60000]}
    /\ refreshInterval = 3

(***************************************************************************)
(* Properties of the tree while refreshes are in flight.                   *)
(***************************************************************************)
\* C12: while any refresh of the provider is in flight, getChildren returns
\* the single item 'Loading...', also when several refreshes overlap.
C12_LoadingWhileInFlight ==
    (\E i \in 1..MaxRefreshes : refreshes[i].st = "inflight")
    => getChildren(jobsProvider, NoElement) = <<TreeItem("Loading...")>>

(***************************************************************************)
(* Properties of the rendered tree.                                        *)
(***************************************************************************)
\* the array id of a job: the text before the first '_' of its id, else the
\* arrayJobId it carries, else none
ClusterOf(job) ==
    LET us == {i \in 1..Len(job.jobId) : CharAt(job.jobId, i) = "_"}
    IN  IF us # {} THEN SubSeq(job.jobId, 1, (CHOOSE i \in us : \A j \in us : i <= j) - 1)
        ELSE IF "arrayJobId" \in DOMAIN job THEN job.arrayJobId
        ELSE ""

Rendered == call.fn = "getChildren" /\ call.done

IsParent(node) == node.item.kind = "job" /\ node.item.isArrayParent

IsRegular(node) == node.item.kind = "job" /\ ~node.item.isArrayParent

TasksBelow(node) == [t \in 1..Len(node.children) |-> node.children[t].item.job]

\* C13: with array grouping on and state grouping off, the jobs of one array
\* id form a cluster; a cluster of two or more jobs is shown as exactly one
\* parent whose children are exactly those tasks, and a cluster of one job
\* is shown as a regular job item with no parent.
C13_ClustersShown ==
    (Rendered /\ jobsProvider.groupArrayJobs /\ ~jobsProvider.groupByState) =>
        LET jobs == jobsProvider.jobs
            root == call.ret
            members(c) == {i \in 1..Len(jobs) : ClusterOf(jobs[i]) = c}
            parents(c) == {k \in 1..Len(root) :
                             /\ IsParent(root[k])
                             /\ \E t \in 1..Len(root[k].children) :
                                   ClusterOf(root[k].children[t].item.job) = c}
            regulars(i) == {k \in 1..Len(root) : IsRegular(root[k]) /\ root[k].item.job = jobs[i]}
        IN  \A i \in 1..Len(jobs) :
              LET c == ClusterOf(jobs[i])
              IN  IF c # "" /\ Cardinality(members(c)) >= 2
                  THEN /\ Cardinality(parents(c)) = 1
                       /\ \A k \in parents(c) :
                            /\ TasksBelow(root[k]) = Select(jobs, members(c))
                            /\ \A t \in 1..Len(root[k].children) :
                                  /\ IsRegular(root[k].children[t])
                                  /\ root[k].children[t].children = <<>>
                       /\ regulars(i) = {}
                  ELSE /\ Cardinality(regulars(i)) = 1
                       /\ \A k \in 1..Len(root) :
                            IsParent(root[k]) =>
                               \A t \in 1..Len(root[k].children) :
                                  TasksBelow(root[k])[t] # jobs[i]

\* a parent of two tasks beside the lone task of another array
C13_Witness ==
    /\ Rendered /\ jobsProvider.groupArrayJobs /\ ~jobsProvider.groupByState
    /\ \E k \in 1..Len(call.ret) : IsParent(call.ret[k]) /\ Len(call.ret[k].children) = 2
    /\ \E k \in 1..Len(call.ret) : IsRegular(call.ret[k]) /\ call.ret[k].item.job.jobId = "7_1"

FixedOrder ==
    <<"RUNNING", "PENDING", "COMPLETING", "COMPLETED", "FAILED", "CANCELLED", "TIMEOUT", "OTHER">>

\* the jobs of the snapshot that belong under a category
JobsIn(category) ==
    {i \in 1..Len(jobsProvider.jobs) :
        IF category = "OTHER"
        THEN \A n \in 1..7 : jobsProvider.jobs[i].state # FixedOrder[n]
        ELSE jobsProvider.jobs[i].state = category}

RECURSIVE SumOfCounts(_)
SumOfCounts(nodes) ==
    IF nodes = <<>> THEN 0 ELSE Head(nodes).item.count + SumOfCounts(Tail(nodes))

\* C14: with state grouping on, the top-level categories appear in the order
\* RUNNING, PENDING, COMPLETING, COMPLETED, FAILED, CANCELLED, TIMEOUT, OTHER;
\* only non-empty categories appear, each carries the number of jobs of the
\* snapshot in that state (OTHER: in any other state), and the counts sum to
\* the number of jobs of the snapshot.
C14_CategoriesInFixedOrder ==
    (Rendered /\ jobsProvider.groupByState /\ Len(jobsProvider.jobs) > 0) =>
        LET root == call.ret
            pos(k) == CHOOSE n \in 1..Len(FixedOrder) : FixedOrder[n] = root[k].item.state
        IN  /\ \A k \in 1..Len(root) :
                 /\ root[k].item.kind = "category"
                 /\ \E n \in 1..Len(FixedOrder) : FixedOrder[n] = root[k].item.state
                 /\ root[k].item.count = Cardinality(JobsIn(root[k].item.state))
                 /\ root[k].item.count > 0
            /\ \A k, l \in 1..Len(root) : k < l => pos(k) < pos(l)
            /\ \A n \in 1..Len(FixedOrder) :
                 JobsIn(FixedOrder[n]) # {} => \E k \in 1..Len(root) : root[k].item.state = FixedOrder[n]
            /\ SumOfCounts(root) = Len(jobsProvider.jobs)

\* PENDING, FAILED and a suspended job: three categories, OTHER last
C14_Witness ==
    /\ Rendered /\ jobsProvider.groupByState
    /\ [k \in 1..Len(call.ret) |-> call.ret[k].item] =
          <<CategoryTreeItem("PENDING", 1), CategoryTreeItem("FAILED", 1), CategoryTreeItem("OTHER", 1)>>

\* where the job of an entry stands in the fetched list; an array parent
\* stands where its first task does
FetchPos(item) ==
    LET job == IF item.isArrayParent THEN item.arrayTasks[1] ELSE item.job
    IN  CHOOSE i \in 1..Len(jobsProvider.jobs) : jobsProvider.jobs[i] = job

InFetchOrder(items) ==
    \A k, l \in 1..Len(items) : k < l => FetchPos(items[k]) < FetchPos(items[l])

ItemsOf(nodes) == [k \in 1..Len(nodes) |-> nodes[k].item]

\* C15: within a category, and in the flat list when state grouping is off,
\* the job entries of one level appear in fetch order, with array grouping on
\* or off; an array parent takes the position of its first task.
C15_FetchOrderKept ==
    (Rendered /\ Len(jobsProvider.jobs) > 0) =>
        IF jobsProvider.groupByState
        THEN \A k \in 1..Len(call.ret) :
                /\ InFetchOrder(ItemsOf(call.ret[k].children))
                /\ \A t \in 1..Len(call.ret[k].children) :
                      InFetchOrder(call.ret[k].children[t].children)
        ELSE /\ InFetchOrder(ItemsOf(call.ret))
             /\ \A k \in 1..Len(call.ret) : InFetchOrder(ItemsOf(call.ret[k].children))

(***************************************************************************)
(* Properties of the record parsers.                                       *)
(***************************************************************************)
\* the fields a row of each parser is expected to have
ExpectedFields == [getJobs |-> 10, getJobAccounting |-> 11, getPartitions |-> 7]

Pad(row, n) == row \o [i \in 1..(n - Len(row)) |-> ""]

\* what the parser of a call makes of the output of a command
ParsedBy(fn, result) ==
    IF fn = "getJobs" THEN getJobs(result, [name |-> ""], DefaultMaxJobsDisplayed)
    ELSE IF fn = "getJobAccounting" THEN getJobAccounting(result)
    ELSE getPartitions(result)

\* the records of the rows, each row given all its fields, parsed on their own
Tolerated(fn, rows) ==
    [i \in 1..Len(rows) |->
        ParsedBy(fn, executeCommand(ExecOk(SqueuePrint(<<Pad(rows[i], ExpectedFields[fn])>>)))).value[1]]

IsStepRow(row) == Includes(row[1], ".")

\* C16: in the queue-listing, accounting-row and partition-listing parsers a
\* non-blank line with fewer fields than expected yields one record with its
\* missing trailing fields defaulted to the empty string or 0, never raises,
\* and leaves the records of the other lines of the batch unchanged.
C16_ShortLinesTolerated ==
    (/\ call.fn \in {"getJobs", "getJobAccounting", "getPartitions"}
     /\ call.done /\ call.success
     /\ \A i \in 1..Len(call.lines) : ~IsStepRow(call.lines[i])) =>
        /\ ~call.ret.threw
        /\ call.ret.value = Tolerated(call.fn, call.lines)

\* C17: the node count of every job the queue-listing parser returns is an
\* integer, 0 when the node-count field is missing, empty or not a number.
C17_NodesIsInteger ==
    (call.fn = "getJobs" /\ call.done /\ ~call.ret.threw) =>
        \A i \in 1..Len(call.ret.value) :
            LET field == IF Len(call.lines[i]) >= 7 THEN Trim(call.lines[i][7]) ELSE ""
                nodes == call.ret.value[i].nodes
            IN  IF IsNaN(nodes) THEN FALSE
                ELSE (field = "" \/ CharAt(field, 1) \notin DIGITS) => nodes = 0

\* C18: getJobDetails returns NotFound whenever the scontrol output holds the
\* invalid-job-id marker, whatever else it holds, and when the command fails
\* or prints nothing.
C18_NotFoundOnMarkerOrFailure ==
    (call.fn = "getJobDetails" /\ call.done) =>
        ((\/ Includes(call.proc.stdout, "Invalid job id")
          \/ ~call.proc.ok
          \/ Trim(call.proc.stdout) = "") => call.ret = NotFound)

\* the marker within a dump that also holds a job record
C18_Witness ==
    /\ call.fn = "getJobDetails" /\ call.done /\ call.proc.ok
    /\ Includes(call.proc.stdout, "JobId=5") /\ Includes(call.proc.stdout, "Invalid job id")
    /\ call.ret = NotFound

\* C19: getJobAccounting drops every row whose job id contains '.', and keeps
\* every top-level job row, in input order.
C19_StepsDroppedJobsKept ==
    (call.fn = "getJobAccounting" /\ call.done /\ call.success) =>
        /\ ~call.ret.threw
        /\ [i \in 1..Len(call.ret.value) |-> call.ret.value[i].jobId]
             = LET kept == Select(call.lines, {i \in 1..Len(call.lines) : ~IsStepRow(call.lines[i])})
               IN  [i \in 1..Len(kept) |-> kept[i][1]]

C21_SetFilterReplaces ==
    /\ [](\A n \in NameFilters :
             n # jobsProvider.filter.name =>
                ENABLED (ProviderSetFilter /\ jobsProvider'.filter = [name |-> n]))
    /\ [][jobsProvider'.filter # jobsProvider.filter =>
             /\ jobsProvider' = [jobsProvider EXCEPT !.filter = jobsProvider'.filter]
             /\ refreshes' = refreshes /\ lastFinished' = lastFinished]_vars
    /\ [][\A i \in 1..MaxRefreshes :
             (refreshes[i].st = "idle" /\ refreshes'[i].st = "inflight") =>
                refreshes'[i].baseFilter = jobsProvider.filter]_vars

\* a refresh that passed a name pattern has finished, the filter was cleared
\* since, and a refresh started after that is passing the empty filter
C21_Witness ==
    /\ lastFinished # None /\ lastFinished.name = "train"
    /\ jobsProvider.filter = NoFilter
    /\ \E i \in 1..MaxRefreshes :
          refreshes[i].st = "inflight" /\ refreshes[i].baseFilter = NoFilter

(***************************************************************************)
(* Properties of the job commands.                                         *)
(***************************************************************************)
\* C22: cancelJob returns true only when the scancel command succeeded;
\* whenever the command fails, whatever its stderr or error message, cancelJob
\* rejects with an error and the job is not reported as cancelled.
C22_CancelledOnlyOnSuccess ==
    (call.fn = "cancelJob" /\ call.done) =>
        IF call.proc.ok THEN call.ret = Returned(TRUE) ELSE call.ret.threw

\* scancel failed without writing to stderr, and cancelJob rejected
C22_Witness ==
    /\ call.fn = "cancelJob" /\ call.done
    /\ ~call.proc.ok /\ call.proc.stderr = ""
    /\ call.ret = Threw("Failed to cancel job 5: Command failed: scancel 5")

\* C23: resubmitJob throws 'Job ... not found' when the job details are
\* NotFound and 'No submit command found' when they carry neither a submit
\* line nor a command, in both cases without running sbatch; otherwise it runs
\* the recorded submit line, prefixed with 'sbatch' when it does not start
\* with it, exactly once and returns the job id that sbatch prints.
C23_ResubmitsRecordedLine ==
    (call.fn = "resubmitJob" /\ call.done) =>
        LET recorded == IF call.submitLine # "" THEN call.submitLine ELSE call.command
        IN  IF ~call.found
            THEN call.ret = [ret |-> Threw("Job 5 not found"), executed |-> <<>>]
            ELSE IF recorded = ""
            THEN /\ call.ret.ret.threw
                 /\ Includes(call.ret.ret.message, "No submit command found")
                 /\ call.ret.executed = <<>>
            ELSE /\ call.ret.executed =
                       <<IF Len(recorded) >= 6 /\ SubSeq(recorded, 1, 6) = "sbatch"
                         THEN recorded ELSE "sbatch " \o recorded>>
                 /\ (call.sbatch.ok /\ Includes(call.sbatch.stdout, "Submitted batch job 12346"))
                       => call.ret.ret = Returned("12346")

(***************************************************************************)
(* Properties of the refresh cycle under failures and overlap.             *)
(***************************************************************************)
\* C24: a completed event is emitted for a job only when a successful fetch
\* no longer lists it; a refresh cycle whose fetch fails, and so empties the
\* job list, emits no completed event.
C24_NoCompletedOnFailedFetch ==
    (lastCheck.checked /\ jobsProvider.lastError # NULL) =>
        \A X \in CycleJobIds : CompletedEvents(lastCheck.shown, X) = {}

\* the notifications among peers that announce the event for the job X
PeerEvents(peers, X, ending) ==
    {m \in peers : /\ HasPrefix(m.message, "Job " \o X \o " (")
                   /\ HasSuffix(m.message, ending)}

\* C25: two refreshJobs calls in flight together that captured the same
\* previous snapshot never both emit the same started or completed event
\* for the same job: a call that reconciles shows no started (completed)
\* notification for a job X when such a call has already shown one.
C25_OverlappingCallsDoNotRepeat ==
    lastCheck.checked =>
        \A X \in CycleJobIds : \A ending \in {") started running", ") completed"} :
            Events(lastCheck.shown, "info", X, ending) # {}
                => PeerEvents(lastCheck.peers, X, ending) = {}

\* the list and the error of the provider p are what a fetch made with the
\* name filter leaves, for some answer of the cluster
FetchedWith(p, name) ==
    \E proc \in ProviderProcs :
        LET result == ProviderFetch[proc, name]
        IN  IF result.threw
            THEN p.jobs = <<>> /\ p.lastError = result.message
            ELSE p.jobs = result.value /\ p.lastError = NULL

\* C26: after a filter change followed by a refresh, once every refresh in
\* flight has completed the list of the provider is one fetched with the
\* current filter: when the list in place was fetched with the current
\* filter by a refresh started after the filter change, the settling of the
\* last refresh in flight, started before that change, does not put back a
\* list fetched with an earlier filter.
C26_ListFetchedWithCurrentFilter ==
    [][\A i \in 1..MaxRefreshes :
          (/\ refreshes[i].st = "inflight" /\ refreshes'[i].st = "done"
           /\ \A j \in 1..MaxRefreshes : refreshes'[j].st # "inflight"
           /\ lastFinished.id > i
           /\ lastFinished.name = jobsProvider.filter.name)
          => FetchedWith(jobsProvider', jobsProvider'.filter.name)]_vars

\* the jobs that expanding a category lists, array tasks counted one by one:
\* <<i, 0>> for the regular item i, <<i, t>> for the task t of the parent i
ListedBelow(node) ==
    {<<i, 0>> : i \in {n \in 1..Len(node.children) : IsRegular(node.children[n])}}
    \cup UNION {{<<i, t>> : t \in 1..Len(node.children[i].children)} :
                  i \in {n \in 1..Len(node.children) : IsParent(node.children[n])}}

JobListed(node, e) ==
    IF e[2] = 0 THEN node.children[e[1]].item.job ELSE node.children[e[1]].children[e[2]].job

\* C27: expanding a category shown at top level lists exactly as many jobs
\* (array tasks counted individually) as the count the category carries, and
\* they are the jobs of the snapshot in that state; expanding OTHER lists
\* every job whose state is outside the fixed category order.
C27_CategoryListsItsCount ==
    (Rendered /\ jobsProvider.groupByState /\ Len(jobsProvider.jobs) > 0) =>
        \A k \in 1..Len(call.ret) :
            LET node == call.ret[k]
            IN  /\ Cardinality(ListedBelow(node)) = node.item.count
                /\ {JobListed(node, e) : e \in ListedBelow(node)}
                     = {jobsProvider.jobs[i] : i \in JobsIn(node.item.state)}

\* where the job and array-parent items of the root and of the categories
\* stand in the rendered tree: <<k, 0>> at the root, <<k, i>> in category k
JobItemPlaces ==
    {<<k, 0>> : k \in {n \in 1..Len(call.ret) : call.ret[n].item.kind = "job"}}
    \cup UNION {{<<k, i>> : i \in 1..Len(call.ret[k].children)} :
                  k \in {n \in 1..Len(call.ret) : call.ret[n].item.kind = "category"}}

ItemAt(place) ==
    IF place[2] = 0 THEN call.ret[place[1]].item
    ELSE call.ret[place[1]].children[place[2]].item

\* C28: the job and array-parent items that getChildren returns for the root
\* and for the categories of one snapshot have distinct ids, whatever the
\* state-grouping and array-grouping toggles, also for an array whose tasks
\* are spread over several states.
C28_ItemIdsDistinct ==
    Rendered =>
        \A a, b \in JobItemPlaces : a # b => ItemAt(a).id # ItemAt(b).id

\* the value of the token of the dump whose key is exactly k: the run of
\* non-blank characters after the first k= that starts a token, "" when no
\* token has the key k
ValueOfKey(o, k) ==
    LET at   == {i \in 1..(Len(o) - Len(k)) :
                   /\ i = 1 \/ CharAt(o, i - 1) \in WHITESPACE
                   /\ SubSeq(o, i, i + Len(k)) = k \o "="}
        from == (CHOOSE i \in at : \A j \in at : i <= j) + Len(k) + 1
        stop == {j \in from..Len(o) : CharAt(o, j) \in WHITESPACE}
    IN  IF at = {} THEN ""
        ELSE SubSeq(o, from, IF stop = {} THEN Len(o)
                             ELSE (CHOOSE j \in stop : \A n \in stop : j <= n) - 1)

\* C29: key lookup in the detailed dump is by exact key: each field that
\* getJobDetails reads with get is the value of the token whose key is that
\* key (nodelist is the value of NodeList also when ReqNodeList= or
\* ExcNodeList= precedes it), and the empty string when no token has the key.
C29_LookupByExactKey ==
    (call.fn = "getJobDetails" /\ call.done /\ call.ret # NotFound) =>
        LET o == call.proc.stdout
        IN  /\ call.ret.jobId = ValueOfKey(o, "JobId")
            /\ call.ret.name = ValueOfKey(o, "JobName")
            /\ call.ret.partition = ValueOfKey(o, "Partition")
            /\ call.ret.stateRaw = ValueOfKey(o, "JobState")
            /\ call.ret.nodelist = ValueOfKey(o, "NodeList")
            /\ call.ret.arrayJobId = ValueOfKey(o, "ArrayJobId")

(***************************************************************************)
(* Properties of output streaming.                                         *)
(***************************************************************************)
\* C30: every tail process that is still running is the entry of its job id
\* in streamingProcesses, so that stopStreamingOutput can kill it, after any
\* sequence of streamJobOutput, stopStreamingOutput, returned stop functions
\* and close events, also when a second stream is started for a job id that
\* already has one.
C30_RunningProcessesTracked ==
    \A proc \in DOMAIN spawned :
        spawned[proc].st = "running" => <<spawned[proc].jobId, proc>> \in streamingProcesses

====
